---- MODULE Spec2Model ----
(***************************************************************************)
(* pg-mirror: the mirror workflow (cli.py), its audit ledger (history.py), *)
(* the naming resolver (hooks.py) and the target-database gate             *)
(* (database.py), as a state machine.                                      *)
(*                                                                         *)
(* Text is a sequence of one-character strings.  Python's None is the      *)
(* empty tuple and a present value x is <<x>> (None / Some).               *)
(***************************************************************************)
EXTENDS Integers, Sequences, FiniteSets, TLC

None == << >>
Some(x) == << x >>

(***************************************************************************)
(* Text helpers                                                            *)
(***************************************************************************)
UpperLetters ==
    << "A","B","C","D","E","F","G","H","I","J","K","L","M",
       "N","O","P","Q","R","S","T","U","V","W","X","Y","Z" >>

LowerLetters ==
    << "a","b","c","d","e","f","g","h","i","j","k","l","m",
       "n","o","p","q","r","s","t","u","v","w","x","y","z" >>

Digits == << "0","1","2","3","4","5","6","7","8","9" >>

Range(s) == { s[i] : i \in DOMAIN s }

IsUpper(c) == c \in Range(UpperLetters)
IsLower(c) == c \in Range(LowerLetters)
IsDigit(c) == c \in Range(Digits)

\* str.lower() on one character of the modelled alphabet
LowerChar(c) ==
    IF IsUpper(c)
    THEN LowerLetters[CHOOSE i \in DOMAIN UpperLetters : UpperLetters[i] = c]
    ELSE c

\* str.lower()
StrLower(s) == [ i \in 1..Len(s) |-> LowerChar(s[i]) ]

\* str(n) for a natural number n
RECURSIVE Str(_)
Str(n) == IF n < 10 THEN << Digits[n + 1] >>
          ELSE Str(n \div 10) \o << Digits[(n % 10) + 1] >>

\* length of the run of decimal digits of s starting at position i
RECURSIVE DigitRun(_, _)
DigitRun(s, i) ==
    IF i <= Len(s) /\ IsDigit(s[i]) THEN 1 + DigitRun(s, i + 1) ELSE 0

(***************************************************************************)
(* Naming resolver (hooks.py)                                              *)
(***************************************************************************)
\* mutant: the name is matched as given, without lower()
extrair_id_assinatura_do_nome_banco_CaseSensitive(nome_banco) ==
    LET l == nome_banco
        n == DigitRun(l, 7)
    IN  IF /\ Len(l) >= 8
           /\ IsLower(l[1]) /\ IsLower(l[2])
           /\ SubSeq(l, 3, 6) = << "_", "d", "1", "_" >>
           /\ n >= 1
           /\ 7 + n <= Len(l)
           /\ l[7 + n] = "_"
        THEN Some(SubSeq(l, 7, 6 + n))
        ELSE None

\* mutant: the group takes one digit, r'^[a-z]{2}_d1_(\d)'
extrair_id_assinatura_do_nome_banco_OneDigit(nome_banco) ==
    LET l == StrLower(nome_banco)
    IN  IF /\ Len(l) >= 7
           /\ IsLower(l[1]) /\ IsLower(l[2])
           /\ SubSeq(l, 3, 6) = << "_", "d", "1", "_" >>
           /\ IsDigit(l[7])
        THEN Some(SubSeq(l, 7, 7))
        ELSE None

\* re.match(r'^[a-z]{2}_d1_(\d+)_', nome_banco.lower()) -> group(1) | None
extrair_id_assinatura_do_nome_banco(nome_banco) ==
    LET l == StrLower(nome_banco)
        n == DigitRun(l, 7)
    IN  IF /\ Len(l) >= 8
           /\ IsLower(l[1]) /\ IsLower(l[2])
           /\ SubSeq(l, 3, 6) = << "_", "d", "1", "_" >>
           /\ n >= 1
           /\ 7 + n <= Len(l)
           /\ l[7 + n] = "_"
        THEN Some(SubSeq(l, 7, 6 + n))
        ELSE None

\* nome.split(" ")[0]
FirstToken(nome) ==
    IF \E i \in DOMAIN nome : nome[i] = " "
    THEN SubSeq(nome, 1, (CHOOSE i \in DOMAIN nome :
                             /\ nome[i] = " "
                             /\ \A j \in 1..(i - 1) : nome[j] # " ") - 1)
    ELSE nome

\* [a-zA-Z0-9_]
IsNameChar(c) == IsLower(c) \/ IsUpper(c) \/ IsDigit(c) \/ c = "_"

\* re.sub(r"[^a-zA-Z0-9_]", "", s)
RECURSIVE Sanitize(_)
Sanitize(s) ==
    IF s = << >> THEN << >>
    ELSE (IF IsNameChar(Head(s)) THEN << Head(s) >> ELSE << >>) \o Sanitize(Tail(s))

\* mutant: the composed name is returned without the re.sub
gerar_nome_banco_dados_NoSanitize(pk, nome, uf) ==
    StrLower(uf) \o << "_", "d", "1", "_" >> \o pk \o << "_" >> \o StrLower(FirstToken(nome))

\* mutant: the region code is not lowercased
gerar_nome_banco_dados_KeepCase(pk, nome, uf) ==
    Sanitize(uf \o << "_", "d", "1", "_" >> \o pk \o << "_" >> \o StrLower(FirstToken(nome)))

\* f"{uf.lower()}_d1_{pk}_{nome_fantasia}" with re.sub(r"[^a-zA-Z0-9_]", "", ...)
gerar_nome_banco_dados(pk, nome, uf) ==
    LET nome_fantasia == StrLower(FirstToken(nome))
        nome_banco_dados ==
            StrLower(uf) \o << "_", "d", "1", "_" >> \o pk \o << "_" >> \o nome_fantasia
    IN  Sanitize(nome_banco_dados)

(***************************************************************************)
(* Audit ledger (history.py): the backups table, row i has id i            *)
(***************************************************************************)
\* json.dumps / json.loads of an extra-data dict
JsonDumps(d) == [ json |-> d ]
JsonLoads(t) == t.json

\* mutant: the extra column is left out of the INSERT
NewRow_ExtraDropped(database, backup_path, size_mb, status, extra) ==
    [ database    |-> database,
      backup_path |-> backup_path,
      size_mb     |-> size_mb,
      status      |-> status,
      extra       |-> None ]

\* record_backup: the row inserted (extra_text = json.dumps(extra) if extra else None)
NewRow(database, backup_path, size_mb, status, extra) ==
    [ database    |-> database,
      backup_path |-> backup_path,
      size_mb     |-> size_mb,
      status      |-> status,
      extra       |-> IF extra # None /\ DOMAIN extra[1] # {}
                      THEN Some(JsonDumps(extra[1])) ELSE None ]

\* record_backup: INSERT; AUTOINCREMENT gives the next id
record_backup_rows(rows, row) == Append(rows, row)
\* mutant: the id is taken from the row count read before the INSERT
record_backup_id_CountBefore(rows) == Len(rows)

record_backup_id(rows) == Len(rows) + 1

\* mutant: True is returned whether or not a field was given
update_backup_result_Always(status, extra) == TRUE

\* update_backup: False when neither field is given
update_backup_result(status, extra) == status # None \/ extra # None

\* mutant: the UPDATE writes the status column only
update_backup_rows_StatusOnly(rows, backup_id, status, extra) ==
    [ i \in DOMAIN rows |->
        IF i # backup_id \/ status = None THEN rows[i]
        ELSE [ rows[i] EXCEPT !.status = status ] ]

\* mutant: one UPDATE and one commit per column
update_backup_commits_PerColumn(status, extra) ==
    ( IF status # None THEN << [ status |-> status, extra |-> None ] >> ELSE << >> )
    \o ( IF extra # None THEN << [ status |-> None, extra |-> extra ] >> ELSE << >> )

\* update_backup: the writes it commits, in order: one UPDATE statement holding
\* every given column, then conn.commit(); none when no field is given
update_backup_commits(status, extra) ==
    IF update_backup_result(status, extra)
    THEN << [ status |-> status, extra |-> extra ] >> ELSE << >>

\* mutant: the UPDATE has no WHERE clause
update_backup_rows_NoWhere(rows, backup_id, status, extra) ==
    [ i \in DOMAIN rows |->
        [ rows[i] EXCEPT
            !.status = IF status # None THEN status ELSE @,
            !.extra  = IF extra # None THEN Some(JsonDumps(extra[1])) ELSE @ ] ]

\* update_backup: UPDATE backups SET status = ?, extra = ? WHERE id = ?
update_backup_rows(rows, backup_id, status, extra) ==
    IF ~update_backup_result(status, extra) THEN rows
    ELSE [ i \in DOMAIN rows |->
             IF i # backup_id THEN rows[i]
             ELSE [ rows[i] EXCEPT
                      !.status = IF status # None THEN status ELSE @,
                      !.extra  = IF extra # None THEN Some(JsonDumps(extra[1])) ELSE @ ] ]

\* get_backup: the row as a dict, or None
get_backup(rows, backup_id) ==
    IF backup_id \in DOMAIN rows
    THEN Some([ id          |-> backup_id,
                database    |-> rows[backup_id].database,
                backup_path |-> rows[backup_id].backup_path,
                size_mb     |-> rows[backup_id].size_mb,
                status      |-> rows[backup_id].status,
                extra       |-> IF rows[backup_id].extra # None
                                THEN Some(JsonLoads(rows[backup_id].extra[1]))
                                ELSE None ])
    ELSE None

(***************************************************************************)
(* Inputs of a run                                                         *)
(***************************************************************************)
N_rj_d1_77_varejo ==
    << "r","j","_","d","1","_","7","7","_","v","a","r","e","j","o" >>
N_SP_D1_123_ACME ==
    << "S","P","_","D","1","_","1","2","3","_","A","C","M","E" >>
N_banco_invalido ==
    << "b","a","n","c","o","_","i","n","v","a","l","i","d","o" >>

\* cfg['source']['database'] of the runs explored
SourceNames == { N_rj_d1_77_varejo, N_SP_D1_123_ACME, N_banco_invalido }

VarejoLtda == << "V","a","r","e","j","o"," ","L","t","d","a" >>
AcmeCorp == << "A","c","m","e"," ","C","o","r","p" >>

\* what the production service answers to the GET of a subscription
FetchOutcomes == { "raise", "empty", "full", "no_id" }
FetchResponse(k) ==
    CASE k = "full"  -> [ id |-> 77, ss_nome_fantasia |-> VarejoLtda, ss_uf |-> << "R","J" >> ]
      [] k = "no_id" -> [ ss_nome_fantasia |-> VarejoLtda, ss_uf |-> << "R","J" >> ]
      [] OTHER       -> << >>

\* what the development service answers to the POST of the clone
CloneOutcomes == { "raise", "full", "acme", "same_id", "zero_id", "no_fields" }
CloneResponse(k) ==
    CASE k = "full"      -> [ id |-> 901, ss_nome_fantasia |-> VarejoLtda, ss_uf |-> << "R","J" >> ]
      [] k = "acme"      -> [ id |-> 55, ss_nome_fantasia |-> AcmeCorp, ss_uf |-> << "S","P" >> ]
      [] k = "same_id"   -> [ id |-> 77, ss_nome_fantasia |-> VarejoLtda, ss_uf |-> << "R","J" >> ]
      [] k = "zero_id"   -> [ id |-> 0, ss_nome_fantasia |-> VarejoLtda, ss_uf |-> << "R","J" >> ]
      [] k = "no_fields" -> [ id |-> 901 ]
      [] OTHER           -> << >>

BackupPath == "/tmp/backup.dump"
EmailUsuario == "dev@example.com"

\* a row written by an earlier run of the tool
ForeignRow ==
    NewRow(N_banco_invalido, "/tmp/old.dump", 3, Some("created"), None)

\* the ledger holds at most this many rows of earlier runs when the run starts
MaxForeignRows == 1

(***************************************************************************)
(* State of one run of `mirror` (cli.py)                                   *)
(***************************************************************************)
VARIABLES
    pc,                           \* the statement of mirror() about to run
    cfg,                          \* database, drop_existing, skip_checks
    env,                          \* EMAIL_USUARIO, FORTEPLUS_TOKEN, JWT_SECRET
    assinatura_id,                \* the correlation key, or None
    backup_file,                  \* the artifact path, or None
    target_database,              \* the name handed to the gate and to restore
    hooks_executados_com_sucesso, \* cleared when audit or provisioning fails
    record_id,                    \* id of the run's audit record, or None
    ledger,                       \* rows of the backups table
    dados_assinatura,             \* the fetched subscription
    assinatura_clonada,           \* the clone's response
    db_exists,                    \* what the existence probe returned
    success,                      \* what restore_backup returned
    err,                          \* str(e) of the exception being handled
    pending,                      \* how the try block is being left
    outcome,                      \* how the run ended
    calls,                        \* collaborator calls made, in order
    cmds,                         \* psql commands issued on the target server
    requests,                     \* HTTP requests sent
    args,                         \* arguments of the function called on its own
    ret,                          \* what that call returned, None before it returns
    runs                          \* runs of mirror() sharing one ledger, by number

vars == << pc, cfg, env, assinatura_id, backup_file, target_database,
           hooks_executados_com_sucesso, record_id, ledger, dados_assinatura,
           assinatura_clonada, db_exists, success, err, pending, outcome,
           calls, cmds, requests, args, ret, runs >>

\* the variables of mirror() other than the ledger
ctl_vars == << pc, cfg, env, assinatura_id, backup_file, target_database,
               hooks_executados_com_sucesso, record_id, dados_assinatura,
               assinatura_clonada, db_exists, success, err, pending, outcome,
               calls, cmds, requests >>

\* a collaborator call: its name, its argument (a tuple of strings) and how it ended
Call(op, arg, res) == [ op |-> op, arg |-> arg, res |-> res ]
Cmd(sql, db) == [ sql |-> sql, db |-> db ]

TokenErro == "FORTEPLUS_TOKEN nao configurado no ambiente"

\* the values FORTEPLUS_TOKEN takes: unset, a JWT whose payload has 'db', one without
TokenKinds == { "unset", "with_db", "without_db" }

Init ==
    /\ pc = "checks"
    /\ cfg \in [ database : SourceNames, drop_existing : BOOLEAN, skip_checks : BOOLEAN ]
    /\ env \in [ EMAIL_USUARIO : { None, Some(EmailUsuario) },
                 FORTEPLUS_TOKEN : TokenKinds,
                 JWT_SECRET : BOOLEAN ]
    /\ assinatura_id = None
    /\ backup_file = None
    /\ target_database = << >>
    /\ hooks_executados_com_sucesso = TRUE
    /\ record_id = None
    /\ ledger \in { [ i \in 1..n |-> ForeignRow ] : n \in 0..MaxForeignRows }
    /\ dados_assinatura = << >>
    /\ assinatura_clonada = << >>
    /\ db_exists = FALSE
    /\ success = FALSE
    /\ err = ""
    /\ pending = "none"
    /\ outcome = "running"
    /\ calls = << >>
    /\ cmds = << >>
    /\ requests = << >>
    /\ args = << >>
    /\ ret = None
    /\ runs = << >>

(***************************************************************************)
(* Remote operations (hooks.py, jwt_utils.py)                              *)
(***************************************************************************)
\* mutant: the token is only looked at when the request's headers are built
HookResult_NoCheck(token, k) == k

\* hooks.py 63-67, 87-91, 114-118: if not FORTEPLUS_TOKEN: raise
\* ImproperlyConfiguredException, before the httpx call; otherwise the call's
\* own outcome
HookResult(token, k) == IF token = "unset" THEN "config_error" ELSE k

\* the request a fetch, clone or link call sends
HookRequests(req, r) == IF r = "config_error" THEN << >> ELSE << req >>

\* hooks.py 154-164, jwt_utils.py 69-82: the token check, then
\* modificar_db_no_token (JWT_SECRET, then 'db' in the payload), then GET and PATCH
IdentityResult(token, secret, k) ==
    IF token = "unset" \/ ~secret THEN "config_error"
    ELSE IF token = "without_db" THEN "no_db" ELSE k

\* the requests the identity update sends
IdentityRequests(r) ==
    CASE r \in { "config_error", "no_db" }  -> << >>
      [] r \in { "get_raise", "not_found" } -> << "GET usuarios" >>
      [] OTHER -> << "GET usuarios", "PATCH usuarios" >>

\* the class of the exception a remote operation raises, "" when it returns:
\* hooks.py 65, 89, 116, 156 (no token); 160-164 (every exception of
\* modificar_db_no_token is raised again as ImproperlyConfiguredException);
\* 197, 205 (ValueError); raise_for_status (HTTPStatusError)
RaisedClass(r) ==
    CASE r \in { "config_error", "no_db" } -> "ImproperlyConfiguredException"
      [] r = "not_found" -> "ValueError"
      [] r \in { "raise", "get_raise", "patch_raise" } -> "HTTPStatusError"
      [] OTHER -> ""

(***************************************************************************)
(* Decisions of the controller                                             *)
(***************************************************************************)
\* mutant: a failed backup is logged and the run goes on to the gate
AfterBackup_GoOn(ok) == IF ok THEN "audit" ELSE "check_hooks"

\* backup_file = create_backup(...): the next statement, or out of the try block
\* when it raises
AfterBackup(ok) == IF ok THEN "audit" ELSE "finally"

\* mutant: the chain runs whether or not a key was resolved
RunsHooks_Always(aid) == TRUE

\* if assinatura_id:
RunsHooks(aid) == aid # None

\* mutant: only a missing answer counts as empty, {} does not
IsEmptyResult_Never(d) == FALSE

\* if not dados_assinatura:
IsEmptyResult(d) == DOMAIN d = {}

\* mutant: the link is made whenever the clone has an id
ShouldLink_NoEmailNeeded(email, dev_id) == dev_id # 0

\* if email_usuario and email_usuario and assinatura_dev_id:
ShouldLink(email, dev_id) == email # None /\ dev_id # 0

\* mutant: the outer handler only warns
FlagAfterAuditFailure_Keep(aid, flag) == flag

\* outer except: if assinatura_id: hooks_executados_com_sucesso = False
FlagAfterAuditFailure(aid, flag) == IF aid # None THEN FALSE ELSE flag

\* mutant: the handler runs after the update that closes the chain as well
AfterUpdate_Handled(ok) == "hooks_except"

\* the update that closes the chain is the last statement of the try block: the
\* flag check follows when it returns, the chain's handler when it raises
AfterUpdate(ok) == IF ok THEN "check_hooks" ELSE "hooks_except"

\* mutant: the flag is never consulted
AbortsBeforeRestore_Never(flag) == FALSE

\* if not hooks_executados_com_sucesso: sys.exit(1)
AbortsBeforeRestore(flag) == ~flag

\* exists = result.stdout.strip() == '1'; except Exception: return False
ProbeResult(k) == k = "exists"

\* mutant: a failed command is written to the audit record as a failure
AfterCommand_Recorded(k) == IF k = "ok" THEN "restore" ELSE "hooks_except"

\* mutant: a failed command is tried again
AfterCommand_Retry(k) == IF k = "ok" THEN "restore" ELSE "create"

\* mutant: a failed command is logged and the run goes on
AfterCommand_GoOn(k) == "restore"

\* psql ran and returned: go on; CalledProcessError -> sys.exit(1); any other
\* exception leaves the try block
AfterCommand(k) == IF k = "ok" THEN "restore" ELSE "finally"
PendingAfterCommand(k, p) ==
    IF k = "ok" THEN p ELSE IF k = "oserror" THEN "exception" ELSE "sysexit"

\* drop_and_create_database: how it ends, from the outcomes of its terminate,
\* drop and create commands (subprocess.run without check, then twice check=True)
RecreateResult(t, d, c) ==
    IF t = "oserror" THEN "oserror"
    ELSE IF d = "failed" THEN "drop_failed"
    ELSE IF c = "failed" THEN "create_failed"
    ELSE IF t = "failed" THEN "ok_terminate_failed"
    ELSE "ok"

\* mutant: CREATE DATABASE is issued after a failed drop too
RecreateCommands_CreateAfterFailedDrop(k, db) ==
    IF k = "oserror" THEN << >>
    ELSE << Cmd("SELECT pg_terminate_backend", db),
            Cmd("DROP DATABASE IF EXISTS", db),
            Cmd("CREATE DATABASE", db) >>

\* drop_and_create_database: the commands it issues, in order
RecreateCommands(k, db) ==
    CASE k = "oserror"     -> << >>
      [] k = "drop_failed" -> << Cmd("SELECT pg_terminate_backend", db),
                                 Cmd("DROP DATABASE IF EXISTS", db) >>
      [] OTHER             -> << Cmd("SELECT pg_terminate_backend", db),
                                 Cmd("DROP DATABASE IF EXISTS", db),
                                 Cmd("CREATE DATABASE", db) >>

\* mutant: an existing target is recreated whatever the policy
GateAction_DropAlways(exists, drop_existing) ==
    IF exists THEN "recreate" ELSE "create"

\* if db_exists and drop_existing: recreate / elif not db_exists: create
GateAction(exists, drop_existing) ==
    IF exists /\ drop_existing THEN "recreate"
    ELSE IF ~exists THEN "create"
    ELSE "restore"

\* mutant: restore is given the source's database name
RestoreName_Source(target, source) == source

\* restore_backup(database=target_database): the name the gate was given
RestoreName(target, source) == target

\* mutant: the fix-up runs without an external address configured
RunsPostFix_IgnoreEmail(ok, aid, email) == ok /\ aid # None

\* mutant: the fix-up does not look at the restore result
RunsPostFix_IgnoreResult(ok, aid, email) == aid # None /\ email # None

\* if success: if assinatura_id: if email_usuario:
RunsPostFix(ok, aid, email) == ok /\ aid # None /\ email # None

\* mutant: an exception of the identity update leaves the try block
PendingAfterPostFix_Propagate(r) == IF r = "ok" THEN "return" ELSE "exception"

\* except Exception as e: logger.warning(...); the run goes on to return
PendingAfterPostFix(r) == "return"

\* mutant: the artifact is removed only when the run returns normally
NeedsCleanup_OnlyOnReturn(file) == file # None /\ pending = "return"

\* finally: if backup_file:
NeedsCleanup(file) == file # None

\* sys.exit(1) and an uncaught exception both end the process with status 1
ExitStatus(o) == IF o = "returned" THEN 0 ELSE 1

(***************************************************************************)
(* The steps of mirror()                                                   *)
(***************************************************************************)
\* cli.py 83-93: verify_system_requirements; SystemCheckError -> sys.exit(1),
\* outside the try block
SystemChecks ==
    /\ pc = "checks"
    /\ \E ok \in BOOLEAN :
         IF cfg.skip_checks \/ ok
         THEN /\ pc' = "config"
              /\ outcome' = outcome
         ELSE /\ pc' = "done"
              /\ outcome' = "sysexit"
    /\ UNCHANGED << cfg, env, assinatura_id, backup_file, target_database,
                    hooks_executados_com_sucesso, record_id, ledger,
                    dados_assinatura, assinatura_clonada, db_exists, success,
                    err, pending, calls, cmds, requests, args, ret, runs >>

\* cli.py 95-121: load_config, which raises on an invalid configuration (cli.py
\* 406-420 catches it in `validate`; `mirror` does not), then the correlation key
\* and the default target name
LoadConfig ==
    /\ pc = "config"
    /\ \E valid \in BOOLEAN :
         IF valid
         THEN /\ assinatura_id' = extrair_id_assinatura_do_nome_banco(cfg.database)
              /\ target_database' = cfg.database
              /\ pc' = "backup"
              /\ outcome' = outcome
         ELSE /\ assinatura_id' = assinatura_id
              /\ target_database' = target_database
              /\ pc' = "done"
              /\ outcome' = "exception"
    /\ UNCHANGED << cfg, env, backup_file, hooks_executados_com_sucesso,
                    record_id, ledger, dados_assinatura, assinatura_clonada,
                    db_exists, success, err, pending, calls, cmds, requests,
                    args, ret, runs >>

\* cli.py 123-132: create_backup returns the artifact path or raises
CreateBackup ==
    /\ pc = "backup"
    /\ \E ok \in BOOLEAN :
         /\ calls' = Append(calls, Call("create_backup", cfg.database,
                                        IF ok THEN "ok" ELSE "raise"))
         /\ backup_file' = IF ok THEN Some(BackupPath) ELSE backup_file
         /\ pending' = IF ok THEN pending ELSE "exception"
         /\ pc' = AfterBackup(ok)
    /\ UNCHANGED << cfg, env, assinatura_id, target_database,
                    hooks_executados_com_sucesso, record_id, ledger,
                    dados_assinatura, assinatura_clonada, db_exists, success,
                    err, outcome, cmds, requests, args, ret, runs >>

\* cli.py 135-155 and 255-261: record_backup(status="created"); when it raises the
\* outer handler warns, and clears the flag if a correlation key was resolved
RecordAudit ==
    /\ pc = "audit"
    /\ \E ok \in BOOLEAN, stat_ok \in BOOLEAN :
         /\ calls' = Append(calls, Call("record_backup", cfg.database,
                                        IF ok THEN "ok" ELSE "raise"))
         /\ IF ok
            THEN /\ ledger' = record_backup_rows(ledger,
                                  NewRow(cfg.database, backup_file[1],
                                         IF stat_ok THEN 12 ELSE 0,
                                         Some("created"), None))
                 /\ record_id' = Some(record_backup_id(ledger))
                 /\ hooks_executados_com_sucesso' = hooks_executados_com_sucesso
                 /\ pc' = IF RunsHooks(assinatura_id) THEN "fetch" ELSE "check_hooks"
            ELSE /\ ledger' = ledger
                 /\ record_id' = record_id
                 /\ hooks_executados_com_sucesso' =
                        FlagAfterAuditFailure(assinatura_id, hooks_executados_com_sucesso)
                 /\ pc' = "check_hooks"
    /\ UNCHANGED << cfg, env, assinatura_id, backup_file, target_database,
                    dados_assinatura, assinatura_clonada, db_exists, success,
                    err, pending, outcome, cmds, requests, args, ret, runs >>

\* cli.py 164-178, hooks.py 62-81: GET of the subscription; no token raises before
\* the request; the log line of 177 reads dados_assinatura['id']
Fetch ==
    /\ pc = "fetch"
    /\ \E k \in FetchOutcomes :
         LET r == HookResult(env.FORTEPLUS_TOKEN, k)
         IN  /\ calls' = Append(calls,
                                Call("obter_dados_assinatura_producao", assinatura_id, r))
             /\ requests' = requests \o HookRequests("GET assinaturas", r)
             /\ dados_assinatura' = IF r \in { "config_error", "raise" }
                                    THEN dados_assinatura ELSE FetchResponse(r)
             /\ CASE r = "config_error" -> err' = TokenErro /\ pc' = "hooks_except"
                  [] r = "raise" ->
                       err' = "HTTPStatusError GET assinaturas" /\ pc' = "hooks_except"
                  [] OTHER ->
                       IF IsEmptyResult(FetchResponse(r))
                       THEN err' = err /\ pc' = "update_skipped"
                       ELSE IF "id" \in DOMAIN FetchResponse(r)
                       THEN err' = err /\ pc' = "clone"
                       ELSE err' = "KeyError id" /\ pc' = "hooks_except"
    /\ UNCHANGED << cfg, env, assinatura_id, backup_file, target_database,
                    hooks_executados_com_sucesso, record_id, ledger,
                    assinatura_clonada, db_exists, success, pending, outcome,
                    cmds, args, ret, runs >>

\* cli.py 172-174: history.update_backup(record_id, status="hooks_skipped")
UpdateSkipped ==
    /\ pc = "update_skipped"
    /\ \E ok \in BOOLEAN :
         /\ calls' = Append(calls, Call("update_backup", << "hooks_skipped" >>,
                                        IF ok THEN "ok" ELSE "raise"))
         /\ IF ok
            THEN /\ ledger' = update_backup_rows(ledger, record_id[1],
                                                 Some("hooks_skipped"), None)
                 /\ err' = err
            ELSE /\ ledger' = ledger
                 /\ err' = "OperationalError update_backup"
         /\ pc' = AfterUpdate(ok)
    /\ UNCHANGED << cfg, env, assinatura_id, backup_file, target_database,
                    hooks_executados_com_sucesso, record_id,
                    dados_assinatura, assinatura_clonada, db_exists, success,
                    pending, outcome, cmds, requests, args, ret, runs >>

\* cli.py 180-200, hooks.py 84-108: POST of the clone, then the target name from
\* the clone's id, ss_nome_fantasia and ss_uf (KeyError when one is missing)
Clone ==
    /\ pc = "clone"
    /\ \E k \in CloneOutcomes :
         LET r == HookResult(env.FORTEPLUS_TOKEN, k)
             resp == CloneResponse(r)
         IN  /\ calls' = Append(calls,
                                Call("clonar_assinatura_desenvolvimento", << >>, r))
             /\ requests' = requests \o HookRequests("POST assinaturas", r)
             /\ assinatura_clonada' = IF r \in { "config_error", "raise" }
                                      THEN assinatura_clonada ELSE resp
             /\ CASE r = "config_error" ->
                       /\ target_database' = target_database
                       /\ err' = TokenErro /\ pc' = "hooks_except"
                  [] r = "raise" ->
                       /\ target_database' = target_database
                       /\ err' = "HTTPStatusError POST assinaturas"
                       /\ pc' = "hooks_except"
                  [] OTHER ->
                       IF { "ss_nome_fantasia", "ss_uf" } \subseteq DOMAIN resp
                       THEN /\ target_database' =
                                  gerar_nome_banco_dados(Str(resp.id),
                                                         resp.ss_nome_fantasia,
                                                         resp.ss_uf)
                            /\ err' = err /\ pc' = "link"
                       ELSE /\ target_database' = target_database
                            /\ err' = "KeyError ss_nome_fantasia"
                            /\ pc' = "hooks_except"
    /\ UNCHANGED << cfg, env, assinatura_id, backup_file,
                    hooks_executados_com_sucesso, record_id, ledger,
                    dados_assinatura, db_exists, success, pending, outcome,
                    cmds, args, ret, runs >>

\* cli.py 202-230, hooks.py 111-138: POST of the subscriber-user link, made only
\* with an email address and a clone id
LinkUser ==
    /\ pc = "link"
    /\ IF ShouldLink(env.EMAIL_USUARIO, assinatura_clonada.id)
       THEN \E ok \in BOOLEAN :
              LET r == HookResult(env.FORTEPLUS_TOKEN, IF ok THEN "ok" ELSE "raise")
              IN  /\ calls' = Append(calls,
                                     Call("criar_assinante_usuario_desenvolvimento",
                                          Str(assinatura_clonada.id), r))
                  /\ requests' = requests \o HookRequests("POST assinantes_usuarios", r)
                  /\ CASE r = "config_error" -> err' = TokenErro /\ pc' = "hooks_except"
                       [] r = "raise" ->
                            /\ err' = "HTTPStatusError POST assinantes_usuarios"
                            /\ pc' = "hooks_except"
                       [] OTHER -> err' = err /\ pc' = "update_completed"
       ELSE /\ calls' = calls
            /\ requests' = requests
            /\ err' = err
            /\ pc' = "update_completed"
    /\ UNCHANGED << cfg, env, assinatura_id, backup_file, target_database,
                    hooks_executados_com_sucesso, record_id, ledger,
                    dados_assinatura, assinatura_clonada, db_exists, success,
                    pending, outcome, cmds, args, ret, runs >>

\* cli.py 232-243: history.update_backup(record_id, status="hooks_completed", extra=...)
UpdateCompleted ==
    /\ pc = "update_completed"
    /\ \E ok \in BOOLEAN :
         /\ calls' = Append(calls, Call("update_backup", << "hooks_completed" >>,
                                        IF ok THEN "ok" ELSE "raise"))
         /\ IF ok
            THEN /\ ledger' = update_backup_rows(ledger, record_id[1],
                                  Some("hooks_completed"),
                                  Some([ assinatura_id_prod |-> assinatura_id[1],
                                         assinatura_id_dev  |-> assinatura_clonada.id,
                                         email_assinante    |-> env.EMAIL_USUARIO,
                                         email_usuario      |-> env.EMAIL_USUARIO,
                                         target_database    |-> target_database ]))
                 /\ err' = err
            ELSE /\ ledger' = ledger
                 /\ err' = "OperationalError update_backup"
         /\ pc' = AfterUpdate(ok)
    /\ UNCHANGED << cfg, env, assinatura_id, backup_file, target_database,
                    hooks_executados_com_sucesso, record_id,
                    dados_assinatura, assinatura_clonada, db_exists, success,
                    pending, outcome, cmds, requests, args, ret, runs >>

\* cli.py 245-261: the chain's handler marks the record hooks_failed with str(e)
\* and clears the flag; when that update raises, the outer handler clears the flag
HooksExcept ==
    /\ pc = "hooks_except"
    /\ \E ok \in BOOLEAN :
         /\ calls' = Append(calls, Call("update_backup", << "hooks_failed" >>,
                                        IF ok THEN "ok" ELSE "raise"))
         /\ IF ok
            THEN /\ ledger' = update_backup_rows(ledger, record_id[1],
                                  Some("hooks_failed"), Some([ error |-> err ]))
                 /\ hooks_executados_com_sucesso' = FALSE
            ELSE /\ ledger' = ledger
                 /\ hooks_executados_com_sucesso' =
                        FlagAfterAuditFailure(assinatura_id, hooks_executados_com_sucesso)
    /\ pc' = "check_hooks"
    /\ UNCHANGED << cfg, env, assinatura_id, backup_file, target_database,
                    record_id, dados_assinatura, assinatura_clonada,
                    db_exists, success, err, pending, outcome, cmds,
                    requests, args, ret, runs >>

\* cli.py 263-270: a cleared flag ends the run with sys.exit(1) before the gate
CheckHooks ==
    /\ pc = "check_hooks"
    /\ IF AbortsBeforeRestore(hooks_executados_com_sucesso)
       THEN pc' = "finally" /\ pending' = "sysexit"
       ELSE pc' = "probe" /\ pending' = pending
    /\ UNCHANGED << cfg, env, assinatura_id, backup_file, target_database,
                    hooks_executados_com_sucesso, record_id, ledger,
                    dados_assinatura, assinatura_clonada, db_exists, success,
                    err, outcome, calls, cmds, requests, args, ret, runs >>

\* cli.py 272-301, database.py 172-214: the existence probe (a failing probe
\* answers False) and the choice between recreate, create and neither
Probe ==
    /\ pc = "probe"
    /\ \E k \in { "exists", "absent", "failed" } :
         /\ calls' = Append(calls, Call("check_database_exists", target_database, k))
         /\ cmds' = Append(cmds, Cmd("SELECT 1 FROM pg_database", target_database))
         /\ db_exists' = ProbeResult(k)
         /\ pc' = GateAction(ProbeResult(k), cfg.drop_existing)
    /\ UNCHANGED << cfg, env, assinatura_id, backup_file, target_database,
                    hooks_executados_com_sucesso, record_id, ledger,
                    dados_assinatura, assinatura_clonada, success, err,
                    pending, outcome, requests, args, ret, runs >>

\* cli.py 292-301, database.py 217-248: CREATE DATABASE; CalledProcessError ->
\* sys.exit(1), any other exception propagates
Create ==
    /\ pc = "create"
    /\ \E k \in { "ok", "failed", "oserror" } :
         /\ calls' = Append(calls, Call("create_database", target_database, k))
         /\ cmds' = IF k = "oserror" THEN cmds
                    ELSE Append(cmds, Cmd("CREATE DATABASE", target_database))
         /\ pc' = AfterCommand(k)
         /\ pending' = PendingAfterCommand(k, pending)
    /\ UNCHANGED << cfg, env, assinatura_id, backup_file, target_database,
                    hooks_executados_com_sucesso, record_id, ledger,
                    dados_assinatura, assinatura_clonada, db_exists, success,
                    err, outcome, requests, args, ret, runs >>

\* cli.py 282-291, database.py 251-311: terminate connections (its exit code is
\* not checked), DROP DATABASE, CREATE DATABASE; CalledProcessError -> sys.exit(1)
Recreate ==
    /\ pc = "recreate"
    /\ \E t \in { "ok", "failed", "oserror" }, d \in { "ok", "failed" },
          c \in { "ok", "failed" } :
         LET k    == RecreateResult(t, d, c)
             done == IF k \in { "ok", "ok_terminate_failed" } THEN "ok"
                     ELSE IF k = "oserror" THEN "oserror" ELSE "failed"
         IN  /\ calls' = Append(calls,
                                Call("drop_and_create_database", target_database, k))
             /\ cmds' = cmds \o RecreateCommands(k, target_database)
             /\ pc' = AfterCommand(done)
             /\ pending' = PendingAfterCommand(done, pending)
    /\ UNCHANGED << cfg, env, assinatura_id, backup_file, target_database,
                    hooks_executados_com_sucesso, record_id, ledger,
                    dados_assinatura, assinatura_clonada, db_exists, success,
                    err, outcome, requests, args, ret, runs >>

\* cli.py 303-349: restore_backup returns a boolean and never raises
\* (restore.py 104-106); False -> sys.exit(1)
Restore ==
    /\ pc = "restore"
    /\ \E ok \in BOOLEAN :
         /\ calls' = Append(calls, Call("restore_backup",
                                        RestoreName(target_database, cfg.database),
                                        IF ok THEN "True" ELSE "False"))
         /\ success' = ok
         /\ IF RunsPostFix(ok, assinatura_id, env.EMAIL_USUARIO)
            THEN pc' = "post" /\ pending' = pending
            ELSE /\ pc' = "finally"
                 /\ pending' = IF ok THEN "return" ELSE "sysexit"
    /\ UNCHANGED << cfg, env, assinatura_id, backup_file, target_database,
                    hooks_executados_com_sucesso, record_id, ledger,
                    dados_assinatura, assinatura_clonada, db_exists, err,
                    outcome, cmds, requests, args, ret, runs >>

\* cli.py 320-336, hooks.py 141-219, jwt_utils.py 53-89: click.pause, then the
\* identity update (token check, token rewrite, GET, PATCH); every exception is
\* logged as a warning
PostFix ==
    /\ pc = "post"
    /\ \E k \in { "get_raise", "not_found", "patch_raise", "ok" } :
         LET r == IdentityResult(env.FORTEPLUS_TOKEN, env.JWT_SECRET, k)
         IN  /\ calls' = calls \o
                    << Call("pause", << >>, "ok"),
                       Call("atualizar_email_usuario_admin_desenvolvimento",
                            target_database, r) >>
             /\ requests' = requests \o IdentityRequests(r)
             /\ pending' = PendingAfterPostFix(r)
    /\ pc' = "finally"
    /\ UNCHANGED << cfg, env, assinatura_id, backup_file, target_database,
                    hooks_executados_com_sucesso, record_id, ledger,
                    dados_assinatura, assinatura_clonada, db_exists, success,
                    err, outcome, cmds, args, ret, runs >>

\* cli.py 351-354: finally: cleanup_backup(backup_file) if a path was returned
Finally ==
    /\ pc = "finally"
    /\ calls' = IF NeedsCleanup(backup_file)
                THEN Append(calls, Call("cleanup_backup", backup_file, "ok"))
                ELSE calls
    /\ outcome' = IF pending = "return" THEN "returned" ELSE pending
    /\ pc' = "done"
    /\ UNCHANGED << cfg, env, assinatura_id, backup_file, target_database,
                    hooks_executados_com_sucesso, record_id, ledger,
                    dados_assinatura, assinatura_clonada, db_exists, success,
                    err, pending, cmds, requests, args, ret, runs >>

Next ==
    \/ SystemChecks
    \/ LoadConfig
    \/ CreateBackup
    \/ RecordAudit
    \/ Fetch
    \/ UpdateSkipped
    \/ Clone
    \/ LinkUser
    \/ UpdateCompleted
    \/ HooksExcept
    \/ CheckHooks
    \/ Probe
    \/ Create
    \/ Recreate
    \/ Restore
    \/ PostFix
    \/ Finally

Spec == Init /\ [][Next]_vars


(***************************************************************************)
(* Functions checked on their own: no run of mirror() is in progress       *)
(***************************************************************************)
Idle ==
    /\ pc = "idle"
    /\ cfg = << >>
    /\ env = << >>
    /\ assinatura_id = None
    /\ backup_file = None
    /\ target_database = << >>
    /\ hooks_executados_com_sucesso = TRUE
    /\ record_id = None
    /\ dados_assinatura = << >>
    /\ assinatura_clonada = << >>
    /\ db_exists = FALSE
    /\ success = FALSE
    /\ err = ""
    /\ pending = "none"
    /\ outcome = "running"
    /\ calls = << >>
    /\ cmds = << >>
    /\ requests = << >>

(***************************************************************************)
(* Restore classifier (restore.py)                                         *)
(***************************************************************************)
\* the whitespace str.strip() removes, within the modelled alphabet
IsSpace(c) == c \in { " ", "\t", "\n", "\r" }

\* str.strip()
Strip(s) ==
    LET keep == { i \in DOMAIN s : ~IsSpace(s[i]) }
    IN  IF keep = {} THEN << >>
        ELSE SubSeq(s, CHOOSE i \in keep : \A j \in keep : i <= j,
                       CHOOSE i \in keep : \A j \in keep : i >= j)

\* p in s
Contains(s, p) ==
    \E i \in 0..(Len(s) - Len(p)) : SubSeq(s, i + 1, i + Len(p)) = p

\* s.split(c) for a one-character separator
RECURSIVE Split(_, _)
Split(s, c) ==
    IF \E i \in DOMAIN s : s[i] = c
    THEN LET i == CHOOSE k \in DOMAIN s : s[k] = c /\ \A j \in 1..(k - 1) : s[j] # c
         IN  << SubSeq(s, 1, i - 1) >> \o Split(SubSeq(s, i + 1, Len(s)), c)
    ELSE << s >>

\* value of a string of decimal digits
RECURSIVE DigitsValue(_)
DigitsValue(ds) ==
    IF ds = << >> THEN 0
    ELSE 10 * DigitsValue(SubSeq(ds, 1, Len(ds) - 1))
         + (CHOOSE d \in 0..9 : Digits[d + 1] = ds[Len(ds)])

\* mutant: the leading digits are taken and the rest of the field is dropped
ParseInt_LeadingDigits(s) ==
    LET t == Strip(s)
        n == DigitRun(t, 1)
    IN  IF n >= 1 THEN Some(DigitsValue(SubSeq(t, 1, n))) ELSE None

\* int(s): Some(value), or None for ValueError.  int() skips surrounding
\* whitespace and takes an optional sign, then digits with single underscores
\* between them
ParseInt(s) ==
    LET t      == Strip(s)
        signed == t # << >> /\ t[1] \in { "+", "-" }
        body   == IF signed THEN Tail(t) ELSE t
        wellformed ==
            /\ body # << >>
            /\ \A i \in DOMAIN body : IsDigit(body[i]) \/ body[i] = "_"
            /\ IsDigit(body[1]) /\ IsDigit(body[Len(body)])
            /\ \A i \in 1..(Len(body) - 1) : ~(body[i] = "_" /\ body[i + 1] = "_")
        value  == DigitsValue(SelectSeq(body, IsDigit))
    IN  IF ~wellformed THEN None
        ELSE IF signed /\ t[1] = "-" THEN Some(0 - value) ELSE Some(value)

\* mutant: every line with 'error:' counts, whatever its prefix
IsAttributedError_AnyError(line_lower) == Contains(line_lower, << "e","r","r","o","r",":" >>)

\* if 'error:' in line_lower and 'pg_restore: error:' in line_lower:
IsAttributedError(line_lower) ==
    /\ Contains(line_lower, << "e","r","r","o","r",":" >>)
    /\ Contains(line_lower, << "p","g","_","r","e","s","t","o","r","e",":"," ","e","r","r","o",
       "r",":" >>)

\* mutant: only the ownership message is taken as benign
IsBenign_OwnerOnly(line_lower) == Contains(line_lower, << "m","u","s","t"," ","b","e"," ","o","w","n","e","r" >>)

\* any(x in line_lower for x in ['must be owner', 'permission denied', 'role',
\* 'does not exist'])
IsBenign(line_lower) ==
    \E x \in { << "m","u","s","t"," ","b","e"," ","o","w","n","e","r" >>,
               << "p","e","r","m","i","s","s","i","o","n"," ","d","e","n","i","e","d" >>,
               << "r","o","l","e" >>,
               << "d","o","e","s"," ","n","o","t"," ","e","x","i","s","t" >> } : Contains(line_lower, x)

\* if 'warning: errors ignored on restore:' in line_lower:
IsSummary(line_lower) ==
    Contains(line_lower, << "w","a","r","n","i","n","g",":"," ","e","r","r","o","r","s"," ",
       "i","g","n","o","r","e","d"," ","o","n"," ","r","e","s","t",
       "o","r","e",":" >>)

\* the loop over stderr_output.split('\n'): critical_errors.append(line.strip())
RECURSIVE CriticalErrorsIn(_)
CriticalErrorsIn(lines) ==
    IF lines = << >> THEN << >>
    ELSE LET line       == Head(lines)
             line_lower == StrLower(line)
         IN  ( IF IsAttributedError(line_lower) /\ ~IsBenign(line_lower)
               THEN << Strip(line) >> ELSE << >> )
             \o CriticalErrorsIn(Tail(lines))

\* the loop over stderr_output.split('\n'):
\* try: warning_count = int(line.split(':')[-1].strip()) except: pass
RECURSIVE WarningCountIn(_, _)
WarningCountIn(lines, count) ==
    IF lines = << >> THEN count
    ELSE LET line   == Head(lines)
             fields == Split(line, ":")
             parsed == ParseInt(Strip(fields[Len(fields)]))
         IN  WarningCountIn(Tail(lines),
                            IF IsSummary(StrLower(line)) /\ parsed # None
                            THEN parsed[1] ELSE count)

\* if stderr_output: (None and '' are skipped)
HasText(stderr_output) == stderr_output # None /\ stderr_output[1] # << >>

critical_errors(stderr_output) ==
    IF HasText(stderr_output)
    THEN CriticalErrorsIn(Split(stderr_output[1], "\n")) ELSE << >>

warning_count(stderr_output) ==
    IF HasText(stderr_output)
    THEN WarningCountIn(Split(stderr_output[1], "\n"), 0) ELSE 0

\* mutant: a zero exit code is taken as success before the errors are looked at
restore_backup_ExitCodeFirst(run) ==
    IF run.raised THEN FALSE
    ELSE IF run.returncode = 0 THEN TRUE
    ELSE IF critical_errors(run.stderr) # << >> THEN FALSE
    ELSE run.returncode = 1 /\ warning_count(run.stderr) > 0

\* restore_backup: what it returns for a run of pg_restore; run.raised is
\* subprocess.run raising, which the except clause turns into False
restore_backup(run) ==
    IF run.raised THEN FALSE
    ELSE IF critical_errors(run.stderr) # << >> THEN FALSE
    ELSE \/ run.returncode = 0
         \/ run.returncode = 1 /\ warning_count(run.stderr) > 0

\* lines pg_restore writes to stderr
L_critical == << "p","g","_","r","e","s","t","o","r","e",":"," ","e","r","r","o",
       "r",":"," ","c","o","u","l","d"," ","n","o","t"," ","e","x",
       "e","c","u","t","e"," ","q","u","e","r","y" >>
L_critical_padded == << " "," ","P","G","_","R","E","S","T","O","R","E",":"," ","E","R",
       "R","O","R",":"," ","s","y","n","t","a","x"," ","e","r","r",
       "o","r","\r" >>
L_owner == << "p","g","_","r","e","s","t","o","r","e",":"," ","e","r","r","o",
       "r",":"," ","m","u","s","t"," ","b","e"," ","o","w","n","e",
       "r"," ","o","f"," ","e","x","t","e","n","s","i","o","n"," ","x" >>
L_denied == << "p","g","_","r","e","s","t","o","r","e",":"," ","e","r","r","o",
       "r",":"," ","p","e","r","m","i","s","s","i","o","n"," ","d",
       "e","n","i","e","d"," ","f","o","r"," ","s","c","h","e","m","a" >>
L_role == << "p","g","_","r","e","s","t","o","r","e",":"," ","e","r","r","o",
       "r",":"," ","r","o","l","e"," ","a","p","p"," ","d","o","e",
       "s"," ","n","o","t"," ","e","x","i","s","t" >>
L_plain_error == << "E","R","R","O","R",":"," ","d","u","p","l","i","c","a","t","e",
       " ","k","e","y"," ","v","a","l","u","e" >>
L_summary_3 == << "p","g","_","r","e","s","t","o","r","e",":"," ","w","a","r","n",
       "i","n","g",":"," ","e","r","r","o","r","s"," ","i","g","n",
       "o","r","e","d"," ","o","n"," ","r","e","s","t","o","r","e",
       ":"," ","3" >>
L_summary_bad == << "p","g","_","r","e","s","t","o","r","e",":"," ","w","a","r","n",
       "i","n","g",":"," ","e","r","r","o","r","s"," ","i","g","n",
       "o","r","e","d"," ","o","n"," ","r","e","s","t","o","r","e",
       ":"," ","2"," ","e","r","r","o","r","s" >>
L_info == << "p","g","_","r","e","s","t","o","r","e",":"," ","p","r","o","c",
       "e","s","s","i","n","g"," ","d","a","t","a"," ","f","o","r",
       " ","t","a","b","l","e"," ","t" >>

StderrLines ==
    { L_critical, L_critical_padded, L_owner, L_denied, L_role, L_plain_error,
      L_summary_3, L_summary_bad, L_info }

\* the stderr texts explored have at most this many lines
MaxStderrLines == 2

\* result.returncode: killed by a signal, success, warnings, fatal
ExitCodes == { 0 - 9, 0, 1, 2 }

\* the text pg_restore wrote: its lines joined by '\n'
RECURSIVE JoinLines(_)
JoinLines(lines) ==
    IF Len(lines) = 1 THEN lines[1]
    ELSE lines[1] \o << "\n" >> \o JoinLines(Tail(lines))

\* what subprocess.run gives restore_backup: an exception, or stderr (absent,
\* empty or some lines) with an exit code
RestoreRuns ==
    { [ raised |-> TRUE, lines |-> << >>, stderr |-> None, returncode |-> 0 ] }
    \cup
    { [ raised |-> FALSE, lines |-> << >>, stderr |-> s, returncode |-> rc ] :
        s \in { None, Some(<< >>) }, rc \in ExitCodes }
    \cup
    { [ raised |-> FALSE, lines |-> ls, stderr |-> Some(JoinLines(ls)),
        returncode |-> rc ] :
        ls \in UNION { [ 1..n -> StderrLines ] : n \in 1..MaxStderrLines },
        rc \in ExitCodes }

RestoreInit ==
    /\ Idle
    /\ ledger = << >>
    /\ args \in RestoreRuns
    /\ ret = None
    /\ runs = << >>

\* restore.py 45-106: one call of restore_backup
RunRestore ==
    /\ ret = None
    /\ ret' = Some(restore_backup(args))
    /\ UNCHANGED << ctl_vars, ledger, args, runs >>

RestoreNext == RunRestore

RestoreSpec == RestoreInit /\ [][RestoreNext]_vars

(***************************************************************************)
(* Naming resolver called on its own (hooks.py)                            *)
(***************************************************************************)
\* database names: a region part, the marker, the id digits and the rest
RegionParts == { << "s","p" >>, << "S","P" >>, << "R","j" >>, << "s" >>, << "s","p","x" >>, << "s","1" >>, << " ","s","p" >> }
MarkerParts == { << "_","d","1","_" >>, << "_","D","1","_" >>, << "_","d","2","_" >>, << "_","d","1" >>, << "d","1","_" >> }
IdParts == { << >>, << "7" >>, << "1","2","3" >>, << "1","2","a" >> }
RestParts == { << >>, << "_" >>, << "_","a","c","m","e" >>, << "_","A","C","M","E" >>, << "a","c","m","e" >>, << "_","l","o","j","a","_","2" >> }

DatabaseNames ==
    { r \o m \o i \o t :
        r \in RegionParts, m \in MarkerParts, i \in IdParts, t \in RestParts }
    \cup { << >>, N_banco_invalido, N_rj_d1_77_varejo }

\* ss_nome_fantasia, ss_uf and id of the cloned subscription
DisplayNames ==
    { AcmeCorp, VarejoLtda, << "A","c","m","e" >>, << "A","C","M","E"," "," ","C","o","r","p" >>, << "A","c","m","e","\t","C","o","r","p" >>,
      << " ","A","c","m","e"," ","C","o","r","p" >>, << "A",".","C",".","M",".","E"," ","C","o","r","p" >>, << "L","o","j","a","-","1"," ","C","e","n","t","r","o" >>, << >> }
RegionCodes == { << "S","P" >>, << "r","j" >>, << "S","-","P" >> }
SubscriptionIds == { << "5","5" >>, << "9","0","1" >> }

\* the clone's fields of a run whose derived name is the source of a later run
LaterRunIds == { << "7" >>, << "0","0","7" >>, << "9","0","1" >> }
LaterRunNames == DisplayNames \cup { << "1","2","3"," ","L","o","j","a" >> }
LaterRunRegions ==
    RegionCodes \cup { << "R","J"," " >>, << "R","1" >>, << "a","b","c" >>, << "r" >>, << >>, << "a","b","_","d","1","_","9" >> }

ExtrairOp == "extrair_id_assinatura_do_nome_banco"
GerarOp == "gerar_nome_banco_dados"
LaterRunOp == "extrair_id_assinatura_do_nome_banco(gerar_nome_banco_dados)"

NamingCalls ==
    { [ op |-> ExtrairOp, nome_banco |-> n ] : n \in DatabaseNames }
    \cup
    { [ op |-> GerarOp, pk |-> p, nome |-> n, uf |-> u ] :
        p \in SubscriptionIds, n \in DisplayNames, u \in RegionCodes }
    \cup
    { [ op |-> LaterRunOp, pk |-> p, nome |-> n, uf |-> u ] :
        p \in LaterRunIds, n \in LaterRunNames, u \in LaterRunRegions }

NamingInit ==
    /\ Idle
    /\ ledger = << >>
    /\ args \in NamingCalls
    /\ ret = None
    /\ runs = << >>

\* hooks.py 31-59: one call of extrair_id_assinatura_do_nome_banco
RunExtrair ==
    /\ ret = None
    /\ args.op = ExtrairOp
    /\ ret' = Some(extrair_id_assinatura_do_nome_banco(args.nome_banco))
    /\ UNCHANGED << ctl_vars, ledger, args, runs >>

\* hooks.py 222-235: one call of gerar_nome_banco_dados
RunGerar ==
    /\ ret = None
    /\ args.op = GerarOp
    /\ ret' = Some(gerar_nome_banco_dados(args.pk, args.nome, args.uf))
    /\ UNCHANGED << ctl_vars, ledger, args, runs >>

\* cli.py 193-197 then, in a later run on the restored database, cli.py 119:
\* the key extracted from a name gerar_nome_banco_dados made
RunLaterRun ==
    /\ ret = None
    /\ args.op = LaterRunOp
    /\ ret' = Some(extrair_id_assinatura_do_nome_banco(
                       gerar_nome_banco_dados(args.pk, args.nome, args.uf)))
    /\ UNCHANGED << ctl_vars, ledger, args, runs >>

NamingNext == RunExtrair \/ RunGerar \/ RunLaterRun

NamingSpec == NamingInit /\ [][NamingNext]_vars

(***************************************************************************)
(* Audit ledger called on its own (history.py)                             *)
(***************************************************************************)
\* the store holds at most this many records
MaxRows == 2

\* extra-data dicts: the error of a failed chain, the ids of a completed one
ExtraError == [ error |-> "boom" ]
ExtraIds == [ assinatura_id_dev |-> 901, email_usuario |-> EmailUsuario ]

\* the optional arguments of update_backup and record_backup
StatusArgs == { None, Some("hooks_completed"), Some("hooks_failed") }
ExtraArgs == { None, Some(<< >>), Some(ExtraError), Some(ExtraIds) }

\* a call of the ledger: its name, its arguments and the rows it found
LedgerCall(op, backup_id, status, extra) ==
    [ op |-> op, id |-> backup_id, status |-> status, extra |-> extra,
      rows |-> ledger ]

LedgerInit ==
    /\ Idle
    /\ ledger = << >>
    /\ args = [ op |-> "none" ]
    /\ ret = None
    /\ runs = << >>

\* history.py 41-58: record_backup
CallRecord ==
    /\ Len(ledger) < MaxRows
    /\ \E database \in { N_rj_d1_77_varejo }, extra \in ExtraArgs :
         /\ ledger' = record_backup_rows(ledger,
                          NewRow(database, BackupPath, 3, Some("created"), extra))
         /\ args' = LedgerCall("record_backup", 0, Some("created"), extra)
    /\ ret' = Some(record_backup_id(ledger))
    /\ UNCHANGED << ctl_vars, runs >>

\* history.py 61-80: update_backup, of an id that exists or not
CallUpdate ==
    /\ \E backup_id \in 1..(Len(ledger) + 1), status \in StatusArgs, extra \in ExtraArgs :
         /\ ledger' = update_backup_rows(ledger, backup_id, status, extra)
         /\ ret' = Some(update_backup_result(status, extra))
         /\ args' = LedgerCall("update_backup", backup_id, status, extra)
    /\ UNCHANGED << ctl_vars, runs >>

\* history.py 83-104: get_backup, of an id that exists or not
CallGet ==
    /\ \E backup_id \in 1..(Len(ledger) + 1) :
         /\ ret' = Some(get_backup(ledger, backup_id))
         /\ args' = LedgerCall("get_backup", backup_id, None, None)
    /\ UNCHANGED << ctl_vars, ledger, runs >>

LedgerNext == CallRecord \/ CallUpdate \/ CallGet

LedgerSpec == LedgerInit /\ [][LedgerNext]_vars

(***************************************************************************)
(* Several runs of mirror() on one ledger (cli.py 146-261, history.py)     *)
(***************************************************************************)
\* number of runs that share the store
MaxRuns == 2

RunIds == 1..MaxRuns

\* a run before its record_backup call
NewRun ==
    [ stage     |-> "record",
      record_id |-> None,
      queue     |-> << >>,
      wrote     |-> [ status |-> None, extra |-> None ] ]

RunsInit ==
    /\ Idle
    /\ ledger \in { [ i \in 1..n |-> ForeignRow ] : n \in 0..MaxForeignRows }
    /\ args = [ op |-> "none" ]
    /\ ret = None
    /\ runs = [ r \in RunIds |-> NewRun ]

\* cli.py 146-154: record_backup(status="created") returns the run's id, or raises
RunRecord(r) ==
    /\ runs[r].stage = "record"
    /\ \E ok \in BOOLEAN :
         IF ok
         THEN /\ ledger' = record_backup_rows(ledger,
                               NewRow(N_rj_d1_77_varejo, BackupPath, 12,
                                      Some("created"), None))
              /\ runs' = [ runs EXCEPT ![r] =
                             [ @ EXCEPT !.stage = "chain",
                                        !.record_id = Some(record_backup_id(ledger)),
                                        !.wrote = [ status |-> Some("created"),
                                                    extra  |-> None ] ] ]
         ELSE /\ ledger' = ledger
              /\ runs' = [ runs EXCEPT ![r].stage = "done" ]
    /\ UNCHANGED << ctl_vars, args, ret >>

\* cli.py 157-243: without a key no update is made; the chain ends with
\* update_backup(hooks_skipped) or update_backup(hooks_completed, extra), or it
\* raises, as the update call itself may
RunChain(r) ==
    /\ runs[r].stage = "chain"
    /\ \E k \in { "no_key", "hooks_skipped", "hooks_completed", "raise" },
          ok \in BOOLEAN :
         runs' = [ runs EXCEPT ![r] =
                     CASE k = "no_key" -> [ @ EXCEPT !.stage = "done" ]
                       [] k = "raise" \/ ~ok -> [ @ EXCEPT !.stage = "handler" ]
                       [] OTHER ->
                            [ @ EXCEPT
                                !.stage = "done",
                                !.queue = update_backup_commits(Some(k),
                                              IF k = "hooks_completed"
                                              THEN Some(ExtraIds) ELSE None) ] ]
    /\ UNCHANGED << ctl_vars, ledger, args, ret >>

\* cli.py 245-253: update_backup(hooks_failed, extra={"error": ...}), which may raise
RunHandler(r) ==
    /\ runs[r].stage = "handler"
    /\ \E ok \in BOOLEAN :
         runs' = [ runs EXCEPT ![r] =
                     [ @ EXCEPT
                         !.stage = "done",
                         !.queue = IF ok
                                   THEN update_backup_commits(Some("hooks_failed"),
                                                              Some(ExtraError))
                                   ELSE << >> ] ]
    /\ UNCHANGED << ctl_vars, ledger, args, ret >>

\* history.py 74-77: the next UPDATE ... WHERE id = ? of the run's update call is
\* executed and committed
RunCommit(r) ==
    /\ runs[r].queue # << >>
    /\ LET c == Head(runs[r].queue)
       IN  /\ ledger' = update_backup_rows(ledger, runs[r].record_id[1],
                                           c.status, c.extra)
           /\ runs' = [ runs EXCEPT ![r] =
                          [ @ EXCEPT
                              !.queue = Tail(@),
                              !.wrote = [ status |-> IF c.status # None
                                                     THEN c.status ELSE @.status,
                                          extra  |-> IF c.extra # None
                                                     THEN c.extra ELSE @.extra ] ] ]
    /\ UNCHANGED << ctl_vars, args, ret >>

\* history.py 83-104: a reader calls get_backup between any two steps
Observe ==
    /\ \E backup_id \in 1..(Len(ledger) + 1) :
         /\ args' = [ op |-> "get_backup", id |-> backup_id ]
         /\ ret' = Some(get_backup(ledger, backup_id))
    /\ UNCHANGED << ctl_vars, ledger, runs >>

RunsNext ==
    \/ \E r \in RunIds : RunRecord(r)
    \/ \E r \in RunIds : RunChain(r)
    \/ \E r \in RunIds : RunHandler(r)
    \/ \E r \in RunIds : RunCommit(r)
    \/ Observe

RunsSpec == RunsInit /\ [][RunsNext]_vars

(***************************************************************************)
(* The remote operations called on their own, and by mirror() (hooks.py)   *)
(***************************************************************************)
\* calls made on the remote operations outside a run of mirror()
MaxHookCalls == 2

\* either a run of mirror() starts, or the module is imported with some
\* environment and its functions are called directly
HooksInit ==
    /\ pc \in { "checks", "hooks" }
    /\ cfg \in [ database : SourceNames, drop_existing : BOOLEAN, skip_checks : BOOLEAN ]
    /\ pc = "hooks" => cfg.database = N_rj_d1_77_varejo /\ cfg.drop_existing /\ cfg.skip_checks
    /\ env \in [ EMAIL_USUARIO : { None, Some(EmailUsuario) },
                 FORTEPLUS_TOKEN : TokenKinds,
                 JWT_SECRET : BOOLEAN ]
    /\ assinatura_id = None
    /\ backup_file = None
    /\ target_database = << >>
    /\ hooks_executados_com_sucesso = TRUE
    /\ record_id = None
    /\ ledger \in { [ i \in 1..n |-> ForeignRow ] : n \in 0..MaxForeignRows }
    /\ pc = "hooks" => ledger = << >>
    /\ dados_assinatura = << >>
    /\ assinatura_clonada = << >>
    /\ db_exists = FALSE
    /\ success = FALSE
    /\ err = ""
    /\ pending = "none"
    /\ outcome = "running"
    /\ calls = << >>
    /\ cmds = << >>
    /\ requests = << >>
    /\ args = << >>
    /\ ret = None
    /\ runs = << >>

\* hooks.py 62-81: obter_dados_assinatura_producao(assinatura_id)
CallFetch ==
    /\ pc = "hooks"
    /\ Len(calls) < MaxHookCalls
    /\ \E k \in FetchOutcomes :
         LET r == HookResult(env.FORTEPLUS_TOKEN, k)
         IN  /\ calls' = Append(calls,
                                Call("obter_dados_assinatura_producao", Some(77), r))
             /\ requests' = requests \o HookRequests("GET assinaturas", r)
             /\ ret' = Some(RaisedClass(r))
    /\ UNCHANGED << pc, cfg, env, assinatura_id, backup_file,
                    target_database, hooks_executados_com_sucesso, record_id,
                    ledger, dados_assinatura, assinatura_clonada, db_exists,
                    success, err, pending, outcome, cmds, args, runs >>

\* hooks.py 84-108: clonar_assinatura_desenvolvimento(dados_assinatura)
CallClone ==
    /\ pc = "hooks"
    /\ Len(calls) < MaxHookCalls
    /\ \E k \in CloneOutcomes :
         LET r == HookResult(env.FORTEPLUS_TOKEN, k)
         IN  /\ calls' = Append(calls,
                                Call("clonar_assinatura_desenvolvimento", << >>, r))
             /\ requests' = requests \o HookRequests("POST assinaturas", r)
             /\ ret' = Some(RaisedClass(r))
    /\ UNCHANGED << pc, cfg, env, assinatura_id, backup_file,
                    target_database, hooks_executados_com_sucesso, record_id,
                    ledger, dados_assinatura, assinatura_clonada, db_exists,
                    success, err, pending, outcome, cmds, args, runs >>

\* hooks.py 111-138: criar_assinante_usuario_desenvolvimento(...)
CallLink ==
    /\ pc = "hooks"
    /\ Len(calls) < MaxHookCalls
    /\ \E k \in { "ok", "raise" } :
         LET r == HookResult(env.FORTEPLUS_TOKEN, k)
         IN  /\ calls' = Append(calls,
                                Call("criar_assinante_usuario_desenvolvimento",
                                     Str(901), r))
             /\ requests' = requests \o HookRequests("POST assinantes_usuarios", r)
             /\ ret' = Some(RaisedClass(r))
    /\ UNCHANGED << pc, cfg, env, assinatura_id, backup_file,
                    target_database, hooks_executados_com_sucesso, record_id,
                    ledger, dados_assinatura, assinatura_clonada, db_exists,
                    success, err, pending, outcome, cmds, args, runs >>

\* hooks.py 141-219: atualizar_email_usuario_admin_desenvolvimento(novo_email,
\* nome_banco_destino)
CallIdentityUpdate ==
    /\ pc = "hooks"
    /\ Len(calls) < MaxHookCalls
    /\ \E k \in { "get_raise", "not_found", "patch_raise", "ok" } :
         LET r == IdentityResult(env.FORTEPLUS_TOKEN, env.JWT_SECRET, k)
         IN  /\ calls' = Append(calls,
                                Call("atualizar_email_usuario_admin_desenvolvimento",
                                     N_rj_d1_77_varejo, r))
             /\ requests' = requests \o IdentityRequests(r)
             /\ ret' = Some(RaisedClass(r))
    /\ UNCHANGED << pc, cfg, env, assinatura_id, backup_file,
                    target_database, hooks_executados_com_sucesso, record_id,
                    ledger, dados_assinatura, assinatura_clonada, db_exists,
                    success, err, pending, outcome, cmds, args, runs >>

HooksNext ==
    \/ Next
    \/ CallFetch
    \/ CallClone
    \/ CallLink
    \/ CallIdentityUpdate

HooksSpec == HooksInit /\ [][HooksNext]_vars
(***************************************************************************)
(* Vocabulary of the properties                                            *)
(***************************************************************************)
Called(op) == \E i \in DOMAIN calls : calls[i].op = op
CalledWith(op, res) == \E i \in DOMAIN calls : calls[i].op = op /\ calls[i].res = res
Count(op) == Cardinality({ i \in DOMAIN calls : calls[i].op = op })

\* history.update_backup(record_id, status=...) was called and ended with res
UpdateRes(status, res) ==
    \E i \in DOMAIN calls :
        /\ calls[i].op = "update_backup"
        /\ calls[i].arg = << status >>
        /\ calls[i].res = res
UpdateCalled(status) == UpdateRes(status, "ok") \/ UpdateRes(status, "raise")

GateOps == { "check_database_exists", "create_database", "drop_and_create_database" }
TargetOps == GateOps \cup { "restore_backup" }
ChainOps == { "obter_dados_assinatura_producao", "clonar_assinatura_desenvolvimento",
              "criar_assinante_usuario_desenvolvimento" }
RemoteOps == ChainOps \cup { "atualizar_email_usuario_admin_desenvolvimento" }

\* every gate or restore call made so far was given the database name
TargetCallsUse(name) ==
    \A i \in DOMAIN calls : calls[i].op \in TargetOps => calls[i].arg = name

\* the run's audit record as get_backup returns it
OwnRecord == get_backup(ledger, record_id[1])[1]

\* the provisioning branch (cli.py 157-261) is over
AfterProvisioning ==
    pc \in { "check_hooks", "probe", "create", "recreate", "restore", "post",
             "finally", "done" }

\* the gate (cli.py 272-301) is over
AfterGate == Called("check_database_exists") /\ pc \notin { "create", "recreate" }

Ended == pc = "done"

\* create or recreate did not complete
GateFailed ==
    \E i \in DOMAIN calls :
        /\ calls[i].op \in { "create_database", "drop_and_create_database" }
        /\ calls[i].res \notin { "ok", "ok_terminate_failed" }

N_rj_d1_901_varejo ==
    << "r","j","_","d","1","_","9","0","1","_","v","a","r","e","j","o" >>
N_sp_d1_55_acme ==
    << "s","p","_","d","1","_","5","5","_","a","c","m","e" >>

(***************************************************************************)
(* C1  cleanup on every exit path                                          *)
(***************************************************************************)
\* C1: when the run has ended, cleanup_backup was called (once, last, with the
\* artifact path) if create_backup returned a path, whatever the exit path; it
\* was not called if create_backup raised or was never reached.
C1_CleanupOnEveryExit ==
    Ended =>
        IF CalledWith("create_backup", "ok")
        THEN /\ Count("cleanup_backup") = 1
             /\ calls[Len(calls)] = Call("cleanup_backup", Some(BackupPath), "ok")
        ELSE ~Called("cleanup_backup")

\* a run that left the try block by an uncaught exception of the gate, after
\* provisioning completed, and still cleaned up
C1_Witness ==
    /\ Ended
    /\ outcome = "exception"
    /\ CalledWith("create_database", "oserror")
    /\ UpdateRes("hooks_completed", "ok")
    /\ Called("cleanup_backup")

(***************************************************************************)
(* C2  a chain exception blocks the gate and restore                       *)
(***************************************************************************)
\* C2: once any step of the provisioning chain has raised (err holds its text),
\* no existence probe, create, recreate or restore call is ever made, and the
\* run ends with a nonzero exit status.
C2_ChainFailureBlocksRestore ==
    (assinatura_id # None /\ err # "") =>
        /\ \A i \in DOMAIN calls : calls[i].op \notin TargetOps
        /\ Ended => (outcome = "sysexit" /\ ExitStatus(outcome) # 0)

\* name derivation raised and the update recording the failure raised as well
C2_Witness ==
    /\ Ended
    /\ err = "KeyError ss_nome_fantasia"
    /\ UpdateRes("hooks_failed", "raise")
    /\ outcome = "sysexit"

(***************************************************************************)
(* C3  a chain exception is recorded as hooks_failed                       *)
(***************************************************************************)
\* C3 as stated: whenever the chain raised, the run's record ends as hooks_failed
\* with the error text in its extra-data.
C3_AsStated ==
    (Ended /\ err # "" /\ record_id # None) =>
        /\ OwnRecord.status = Some("hooks_failed")
        /\ OwnRecord.extra = Some([ error |-> err ])

\* C3 amended: when the chain raised and the update that records the failure
\* returned, the record is hooks_failed with extra-data {error: text}; when that
\* update raised too, the record is still created with no extra-data.  Every
\* chain exception reaches that update.
C3_FailureRecorded ==
    /\ (err # "" /\ pc # "hooks_except") => UpdateCalled("hooks_failed")
    /\ UpdateRes("hooks_failed", "ok") =>
          /\ OwnRecord.status = Some("hooks_failed")
          /\ OwnRecord.extra = Some([ error |-> err ])
          /\ err # ""
    /\ UpdateRes("hooks_failed", "raise") =>
          /\ OwnRecord.status = Some("created")
          /\ OwnRecord.extra = None

\* the clone raised, the failure was recorded and the run has ended
C3_Witness ==
    /\ Ended
    /\ CalledWith("clonar_assinatura_desenvolvimento", "raise")
    /\ UpdateRes("hooks_failed", "ok")
    /\ OwnRecord.extra = Some([ error |-> "HTTPStatusError POST assinaturas" ])

(***************************************************************************)
(* C4  an empty fetch result skips the chain                               *)
(***************************************************************************)
FetchEmpty == CalledWith("obter_dados_assinatura_producao", "empty")

\* what C4 promises of a run whose fetch returned an empty result
SkippedOutcome ==
    /\ ~Called("clonar_assinatura_desenvolvimento")
    /\ ~Called("criar_assinante_usuario_desenvolvimento")
    /\ AfterProvisioning =>
          /\ OwnRecord.status = Some("hooks_skipped")
          /\ hooks_executados_com_sucesso
          /\ target_database = cfg.database
          /\ TargetCallsUse(cfg.database)
    /\ Ended => Called("check_database_exists")
    /\ Ended => (Called("restore_backup") \/ GateFailed)

\* C4 as stated: an empty fetch result always gives hooks_skipped, no abort, and
\* gate and restore on the source name.
C4_AsStated == FetchEmpty => SkippedOutcome

\* C4 amended: the same, when the hooks_skipped update returns; when it raises
\* the run is handled as a chain failure (no gate, no restore, nonzero exit).
\* The hooks_skipped update is always attempted after an empty result.
C4_EmptyFetchSkips ==
    /\ (FetchEmpty /\ pc # "update_skipped") => UpdateCalled("hooks_skipped")
    /\ (FetchEmpty /\ UpdateRes("hooks_skipped", "ok")) => SkippedOutcome
    /\ (FetchEmpty /\ UpdateRes("hooks_skipped", "raise")) =>
          /\ ~Called("clonar_assinatura_desenvolvimento")
          /\ ~Called("criar_assinante_usuario_desenvolvimento")
          /\ \A i \in DOMAIN calls : calls[i].op \notin TargetOps
          /\ Ended => ExitStatus(outcome) # 0

\* empty result, record hooks_skipped, restore of the source name succeeded
C4_Witness ==
    /\ Ended
    /\ FetchEmpty
    /\ OwnRecord.status = Some("hooks_skipped")
    /\ \E i \in DOMAIN calls :
          calls[i] = Call("restore_backup", cfg.database, "True")
    /\ outcome = "returned"

(***************************************************************************)
(* C5  no correlation key: no provisioning, record stays created           *)
(***************************************************************************)
\* C5: in a run whose source name yields no key (banco_invalido is such a name) no
\* remote call is made and no request is sent, the ledger is never updated, gate
\* and restore are given the source name, and the record, if it was created,
\* keeps status created to the end, whatever restore returns.
C5_NoKeyNoProvisioning ==
    /\ (cfg.database = N_banco_invalido /\ Called("create_backup"))
           => assinatura_id = None
    /\ (assinatura_id = None /\ Called("create_backup")) =>
          /\ \A i \in DOMAIN calls :
                calls[i].op \notin RemoteOps \cup { "update_backup", "pause" }
          /\ requests = << >>
          /\ target_database = cfg.database
          /\ TargetCallsUse(cfg.database)
          /\ record_id # None =>
                /\ OwnRecord.status = Some("created")
                /\ OwnRecord.extra = None

\* a keyless run whose restore failed, with its record still created
C5_Witness ==
    /\ Ended
    /\ assinatura_id = None
    /\ CalledWith("restore_backup", "False")
    /\ record_id # None
    /\ OwnRecord.status = Some("created")

(***************************************************************************)
(* C6  a completed chain renames the target and records the correlation    *)
(***************************************************************************)
LinkOk == CalledWith("criar_assinante_usuario_desenvolvimento", "ok")

\* the names and keys the explored inputs must give
ExpectedTarget ==
    CASE assinatura_clonada.id = 901 -> N_rj_d1_901_varejo
      [] assinatura_clonada.id = 77  -> N_rj_d1_77_varejo
      [] OTHER                       -> N_sp_d1_55_acme
ExpectedKey ==
    IF cfg.database = N_rj_d1_77_varejo THEN << "7", "7" >> ELSE << "1", "2", "3" >>

\* what C6 promises of a run whose fetch, clone and link-user succeeded
CompletedOutcome ==
    /\ target_database = ExpectedTarget
    /\ AfterProvisioning =>
          /\ OwnRecord.status = Some("hooks_completed")
          /\ OwnRecord.extra =
                Some([ assinatura_id_prod |-> ExpectedKey,
                       assinatura_id_dev  |-> assinatura_clonada.id,
                       email_assinante    |-> Some(EmailUsuario),
                       email_usuario      |-> Some(EmailUsuario),
                       target_database    |-> ExpectedTarget ])
          /\ hooks_executados_com_sucesso
          /\ TargetCallsUse(ExpectedTarget)

\* C6 as stated: fetch non-empty, clone and link-user succeeded: the target is the
\* derived name and the record is hooks_completed with the correlation metadata.
C6_AsStated == LinkOk => CompletedOutcome

\* C6 amended: the same, when the hooks_completed update returns (it is always
\* attempted); when it raises, the run is handled as a chain failure.
C6_CompletedChain ==
    /\ (LinkOk /\ pc # "update_completed") => UpdateCalled("hooks_completed")
    /\ (LinkOk /\ UpdateRes("hooks_completed", "ok")) => CompletedOutcome
    /\ (LinkOk /\ UpdateRes("hooks_completed", "raise")) =>
          /\ \A i \in DOMAIN calls : calls[i].op \notin TargetOps
          /\ Ended => ExitStatus(outcome) # 0

\* the end-to-end scenario: rj_d1_77_varejo, clone 901 'Varejo Ltda' 'RJ', restored
\* into rj_d1_901_varejo, record hooks_completed with assinatura_id_dev 901
C6_Witness ==
    /\ Ended
    /\ cfg.database = N_rj_d1_77_varejo
    /\ LinkOk
    /\ \E i \in DOMAIN calls :
          calls[i] = Call("restore_backup", N_rj_d1_901_varejo, "True")
    /\ OwnRecord.status = Some("hooks_completed")
    /\ OwnRecord.extra[1].assinatura_id_dev = 901

(***************************************************************************)
(* C7  failure to create the audit record                                  *)
(***************************************************************************)
\* C7: when record_backup raised: without a correlation key the run goes on to
\* the gate (the flag stays set, the probe is made, restore follows unless the
\* gate fails); with a key no provisioning call is made, no request is sent, the
\* gate and restore are never invoked and the run ends with sys.exit(1).
C7_AuditFailure ==
    CalledWith("record_backup", "raise") =>
        /\ record_id = None
        /\ IF assinatura_id = None
           THEN /\ hooks_executados_com_sucesso
                /\ pending # "sysexit" \/ Called("check_database_exists")
                /\ Ended => Called("check_database_exists")
                /\ Ended => (Called("restore_backup") \/ GateFailed)
           ELSE /\ \A i \in DOMAIN calls :
                      calls[i].op \notin RemoteOps \cup TargetOps \cup { "update_backup" }
                /\ requests = << >>
                /\ Ended => (outcome = "sysexit" /\ ExitStatus(outcome) # 0)

\* the fatal branch: a key was resolved, the record could not be written
C7_Witness ==
    /\ Ended
    /\ CalledWith("record_backup", "raise")
    /\ assinatura_id = Some(<< "1", "2", "3" >>)
    /\ outcome = "sysexit"
    /\ Called("cleanup_backup")

(***************************************************************************)
(* C8  the target gate                                                     *)
(***************************************************************************)
CmdIssued(sql) == \E i \in DOMAIN cmds : cmds[i].sql = sql

\* C8: once the gate is over exactly one of three things was done, decided by the
\* probe's answer and drop_existing: recreate (exists, drop set), create only
\* (does not exist), nothing (exists, drop not set: no CREATE and no DROP command
\* was issued, and restore is next or has run).
C8_GateDecision ==
    AfterGate =>
        /\ (db_exists /\ cfg.drop_existing) =>
              /\ Count("drop_and_create_database") = 1
              /\ Count("create_database") = 0
        /\ ~db_exists =>
              /\ Count("create_database") = 1
              /\ Count("drop_and_create_database") = 0
              /\ ~CmdIssued("DROP DATABASE IF EXISTS")
              /\ ~CmdIssued("SELECT pg_terminate_backend")
        /\ (db_exists /\ ~cfg.drop_existing) =>
              /\ Count("create_database") = 0
              /\ Count("drop_and_create_database") = 0
              /\ Len(cmds) = 1
              /\ pc = "restore" \/ Called("restore_backup")

\* the target exists, drop_existing is not set, restore ran into it
C8_Witness ==
    /\ Ended
    /\ db_exists
    /\ ~cfg.drop_existing
    /\ CalledWith("check_database_exists", "exists")
    /\ CalledWith("restore_backup", "True")
    /\ Len(cmds) = 1

(***************************************************************************)
(* C9  failures of the target-database calls                               *)
(***************************************************************************)
\* C9 as stated: a failing existence probe, create or drop aborts the run with a
\* nonzero status and restore is not invoked.
C9_AsStated ==
    (CalledWith("check_database_exists", "failed") \/ GateFailed) =>
        /\ ~Called("restore_backup")
        /\ Ended => ExitStatus(outcome) # 0

\* C9 amended: a failing create or drop (or an exception of the command) aborts
\* the run with a nonzero status and restore is not invoked; a failing existence
\* probe is not fatal: it answers "does not exist" and the gate goes on to create.
C9_GateFailureIsFatal ==
    /\ GateFailed =>
          /\ ~Called("restore_backup")
          /\ pc \in { "finally", "done" }
          /\ Ended => ExitStatus(outcome) # 0
    /\ CalledWith("check_database_exists", "failed") =>
          /\ ~db_exists
          /\ ~Called("drop_and_create_database")
          /\ pc = "create" \/ Called("create_database")

\* the probe failed and then CREATE DATABASE failed: the run exited with status 1
C9_Witness ==
    /\ Ended
    /\ CalledWith("check_database_exists", "failed")
    /\ CalledWith("create_database", "failed")
    /\ outcome = "sysexit"

(***************************************************************************)
(* C10  exit status and the restore result                                 *)
(***************************************************************************)
\* C10: when restore_backup returned False no fix-up step (pause, identity update)
\* is made and the run ends with a nonzero status; a run ends with status 0 only
\* if restore_backup was called and returned True.
C10_ExitStatus ==
    /\ CalledWith("restore_backup", "False") =>
          /\ ~Called("pause")
          /\ ~Called("atualizar_email_usuario_admin_desenvolvimento")
          /\ Ended => (outcome = "sysexit" /\ ExitStatus(outcome) # 0)
    /\ (Ended /\ ExitStatus(outcome) = 0) =>
          /\ CalledWith("restore_backup", "True")
          /\ success

\* restore failed in a run that would otherwise have run the fix-up
C10_Witness ==
    /\ Ended
    /\ CalledWith("restore_backup", "False")
    /\ UpdateRes("hooks_completed", "ok")
    /\ env.EMAIL_USUARIO # None
    /\ outcome = "sysexit"


(***************************************************************************)
(* C11  when the post-restore identity update is made                      *)
(***************************************************************************)
IdentityUpdate == "atualizar_email_usuario_admin_desenvolvimento"

\* C11: the identity update is called only in a run that resolved a correlation
\* key, whose restore returned True and that has EMAIL_USUARIO configured; the
\* operator pause is the call right before it, it comes after the restore, and
\* it is given the database name that was restored.
C11_FixupGuard ==
    \A i \in DOMAIN calls :
        calls[i].op = IdentityUpdate =>
            /\ assinatura_id # None
            /\ env.EMAIL_USUARIO # None
            /\ success
            /\ i > 2
            /\ calls[i - 1] = Call("pause", << >>, "ok")
            /\ calls[i - 2] = Call("restore_backup", calls[i].arg, "True")
            /\ calls[i].arg = target_database
            /\ Count("pause") = 1

\* the identity update was made on the derived target name after the pause
C11_Witness ==
    /\ Ended
    /\ CalledWith(IdentityUpdate, "ok")
    /\ target_database = N_rj_d1_901_varejo
    /\ CalledWith("restore_backup", "True")
    /\ Called("pause")

(***************************************************************************)
(* C12  a failing identity update does not change the outcome              *)
(***************************************************************************)
\* the identity update was called and raised (configuration, token rewrite,
\* GET or PATCH)
IdentityUpdateRaised ==
    \E i \in DOMAIN calls : calls[i].op = IdentityUpdate /\ calls[i].res # "ok"

\* C12: the fix-up step never changes the ledger and always leaves the try block
\* by the normal return; a run whose identity update raised then ends with exit
\* status 0.
C12_FixupFailureIsAdvisory ==
    [][ /\ pc = "post" => (ledger' = ledger /\ pending' = "return")
        /\ (pc = "finally" /\ IdentityUpdateRaised) =>
               (outcome' = "returned" /\ ExitStatus(outcome') = 0) ]_vars

\* the token rewrite raised (the token has no 'db' claim) after provisioning
\* completed and restore succeeded; the run returned
C12_Witness ==
    /\ Ended
    /\ CalledWith(IdentityUpdate, "no_db")
    /\ CalledWith("restore_backup", "True")
    /\ OwnRecord.status = Some("hooks_completed")
    /\ outcome = "returned"

(***************************************************************************)
(* Vocabulary of the classifier properties                                 *)
(***************************************************************************)
\* a line attributed to the restore tool's own error channel
Attributed(line) == Contains(StrLower(line), << "p","g","_","r","e","s","t","o","r","e",":"," ","e","r","r","o",
       "r",":" >>)

\* a line with one of the benign substrings
Benign(line) ==
    \/ Contains(StrLower(line), << "m","u","s","t"," ","b","e"," ","o","w","n","e","r" >>)
    \/ Contains(StrLower(line), << "p","e","r","m","i","s","s","i","o","n"," ","d","e","n","i","e","d" >>)
    \/ Contains(StrLower(line), << "r","o","l","e" >>)
    \/ Contains(StrLower(line), << "d","o","e","s"," ","n","o","t"," ","e","x","i","s","t" >>)

\* positions of the attributed error lines that are not benign
Offending ==
    { i \in DOMAIN args.lines : Attributed(args.lines[i]) /\ ~Benign(args.lines[i]) }

\* the k-th smallest element of a set of positions
NthOf(S, k) == CHOOSE i \in S : Cardinality({ j \in S : j < i }) = k - 1

\* what follows the last ':' of a line
TrailingField(line) ==
    LET cut == { i \in DOMAIN line : line[i] = ":" }
    IN  SubSeq(line, (CHOOSE i \in cut : \A j \in cut : i >= j) + 1, Len(line))

\* a decimal integer, with surrounding blanks allowed
IsIntegerText(s) ==
    LET t == Strip(s)
        b == IF t # << >> /\ t[1] \in { "+", "-" } THEN Tail(t) ELSE t
    IN  b # << >> /\ \A i \in DOMAIN b : IsDigit(b[i])

IntegerOf(s) ==
    LET t == Strip(s)
    IN  IF t[1] = "-" THEN 0 - DigitsValue(Tail(t))
        ELSE IF t[1] = "+" THEN DigitsValue(Tail(t)) ELSE DigitsValue(t)

\* positions of the summary lines, and of those whose trailing field is a number
SummaryLines ==
    { i \in DOMAIN args.lines :
        Contains(StrLower(args.lines[i]), << "w","a","r","n","i","n","g",":"," ","e","r","r","o","r","s"," ",
       "i","g","n","o","r","e","d"," ","o","n"," ","r","e","s","t",
       "o","r","e",":" >>) }
CountedLines ==
    { i \in SummaryLines : IsIntegerText(TrailingField(args.lines[i])) }

\* the warning count the text reports: that of its last well-formed summary line
ParsedCount ==
    IF CountedLines = {} THEN 0
    ELSE IntegerOf(TrailingField(
             args.lines[CHOOSE i \in CountedLines : \A j \in CountedLines : i >= j]))

\* restore_backup returned after pg_restore ran to its end
Classified == ret # None /\ ~args.raised

(***************************************************************************)
(* C13  benign attributed errors                                           *)
(***************************************************************************)
\* C13 as stated: a text whose attributed error lines are all benign makes
\* restore_backup return True, whatever the exit code.
C13_AsStated ==
    ( /\ Classified
      /\ Offending = {}
      /\ \E i \in DOMAIN args.lines : Attributed(args.lines[i]) )
    => ret = Some(TRUE)

\* C13: a text whose attributed error lines are all benign never yields a
\* critical error line; restore_backup returns True when the exit code is 0, or
\* is 1 with a positive warning count, and False (no error line reported) for
\* every other exit code.
C13_BenignNeverCritical ==
    ( /\ Classified
      /\ Offending = {}
      /\ \E i \in DOMAIN args.lines : Attributed(args.lines[i]) )
    => /\ critical_errors(args.stderr) = << >>
       /\ args.returncode = 0 => ret = Some(TRUE)
       /\ args.returncode = 1 => ret = Some(ParsedCount > 0)
       /\ args.returncode \notin { 0, 1 } => ret = Some(FALSE)

\* two benign error lines and exit code 0: success
C13_Witness ==
    /\ args.lines = << L_owner, L_role >>
    /\ args.returncode = 0
    /\ ret = Some(TRUE)

(***************************************************************************)
(* C14  a non-benign attributed error is critical                          *)
(***************************************************************************)
\* C14: a text with at least one attributed error line that has none of the
\* benign substrings makes restore_backup return False, whatever the exit code,
\* the warning count and the other lines; the error list holds exactly the
\* offending lines, in stream order, each without its surrounding whitespace.
C14_CriticalWins ==
    ( Classified /\ Offending # {} )
    => /\ ret = Some(FALSE)
       /\ critical_errors(args.stderr) =
              [ k \in 1..Cardinality(Offending) |->
                  Strip(args.lines[NthOf(Offending, k)]) ]

\* two critical lines with exit code 0: failure, both listed in order
C14_Witness ==
    /\ args.lines = << L_critical_padded, L_critical >>
    /\ args.returncode = 0
    /\ ret = Some(FALSE)
    /\ Len(critical_errors(args.stderr)) = 2

(***************************************************************************)
(* C15  the verdict without critical errors                                *)
(***************************************************************************)
\* C15: with no non-benign attributed error line (a line with 'error:' but not
\* the tool's prefix does not count) restore_backup returns True exactly when
\* the exit code is 0, or the exit code is 1 and the parsed warning count is
\* positive.
C15_RuleOfExitCode ==
    ( Classified /\ Offending = {} )
    => ret = Some( \/ args.returncode = 0
                   \/ args.returncode = 1 /\ ParsedCount > 0 )

\* an unattributed error line, three ignored errors, exit code 1: success
C15_Witness ==
    /\ args.lines = << L_plain_error, L_summary_3 >>
    /\ args.returncode = 1
    /\ ret = Some(TRUE)

(***************************************************************************)
(* C16  the classifier never raises                                        *)
(***************************************************************************)
\* the text has summary lines and none of them ends in an integer
MalformedOnly == SummaryLines # {} /\ CountedLines = {}

IsLetter(c) == IsLower(c) \/ IsUpper(c)

\* name is <2 letters>_d1_<n digits>_<anything>, letters in either case
HasEncoding(name, n) ==
    /\ n >= 1
    /\ Len(name) >= 7 + n
    /\ IsLetter(name[1]) /\ IsLetter(name[2])
    /\ name[3] = "_" /\ name[4] \in { "d", "D" } /\ name[5] = "1" /\ name[6] = "_"
    /\ \A i \in 7..(6 + n) : IsDigit(name[i])
    /\ name[7 + n] = "_"

\* C17: for a name of the form <2 letters>_d1_<digits>_<rest>, in either case,
\* extrair_id_assinatura_do_nome_banco returns the digits; for every other name
\* it returns None.
C17_ExtractKey ==
    (ret # None /\ args.op = ExtrairOp) =>
        LET name == args.nome_banco
        IN  /\ \A n \in 1..Len(name) :
                  HasEncoding(name, n) => ret = Some(Some(SubSeq(name, 7, 6 + n)))
            /\ (~\E n \in 1..Len(name) : HasEncoding(name, n)) => ret = Some(None)

\* 'SP_D1_123_ACME' gave '123'
C17_Witness ==
    /\ args.op = ExtrairOp
    /\ args.nome_banco = N_SP_D1_123_ACME
    /\ ret = Some(Some(<< "1", "2", "3" >>))

(***************************************************************************)
(* C18  the derived target name                                            *)
(***************************************************************************)
\* the first whitespace-delimited token of a text, empty if it has none
FirstWhitespaceToken(s) ==
    LET ink == { i \in DOMAIN s : ~IsSpace(s[i]) }
    IN  IF ink = {} THEN << >>
        ELSE LET first == CHOOSE i \in ink : \A j \in ink : i <= j
                 last  == CHOOSE i \in ink :
                              /\ \A j \in first..i : j \in ink
                              /\ (i + 1) \notin ink
             IN  SubSeq(s, first, last)

\* the text before the first space character, the whole text if it has none
FirstSpaceField(s) ==
    LET sp == { i \in DOMAIN s : s[i] = " " }
    IN  IF sp = {} THEN s
        ELSE SubSeq(s, 1, (CHOOSE i \in sp : \A j \in sp : i <= j) - 1)

\* <lowercased region>_d1_<id>_<token> with only letters, digits and '_' kept
Composed(pk, token, uf) ==
    SelectSeq(StrLower(uf) \o << "_", "d", "1", "_" >> \o pk \o << "_" >> \o StrLower(token),
              IsNameChar)

TwoAsciiLetters(s) == Len(s) = 2 /\ IsLetter(s[1]) /\ IsLetter(s[2])

\* the region as it appears in the derived name: only letters, digits and
\* underscores are kept
KeptRegion(uf) == SelectSeq(uf, IsNameChar)

\* the region itself starts with <2 letters>_d1_<n digits>, followed by an
\* underscore or by nothing
RegionHoldsKey(uf, n) == HasEncoding(KeptRegion(uf) \o << "_" >>, n)

\* C32 as stated: the key of the derived name is the id for a region of two
\* ASCII letters, and there is no key for any other region.
C32_AsStated ==
    (ret # None /\ args.op = LaterRunOp) =>
        /\ TwoAsciiLetters(args.uf) => ret = Some(Some(args.pk))
        /\ ~TwoAsciiLetters(args.uf) => ret = Some(None)

\* C32 amended: the key of the derived name is the id whenever the region,
\* with its characters other than letters, digits and underscores removed, is
\* two ASCII letters ('S-P' and 'RJ ' as well as 'SP'); a region that itself
\* starts with <2 letters>_d1_<digits> gives those digits; every other region
\* gives no key.
C32_RoundTrip ==
    (ret # None /\ args.op = LaterRunOp) =>
        LET kept == KeptRegion(args.uf)
        IN  /\ TwoAsciiLetters(kept) => ret = Some(Some(args.pk))
            /\ \A n \in 1..Len(kept) :
                  RegionHoldsKey(args.uf, n) => ret = Some(Some(SubSeq(kept, 7, 6 + n)))
            /\ ( /\ ~TwoAsciiLetters(kept)
                 /\ ~\E n \in 1..Len(kept) : RegionHoldsKey(args.uf, n) ) =>
                  ret = Some(None)

\* ('901', 'Loja-1 Centro', 'S-P') gives sp_d1_901_loja1, whose key is '901'
C32_Witness ==
    /\ args.op = LaterRunOp
    /\ args.pk = << "9", "0", "1" >>
    /\ args.uf = << "S", "-", "P" >>
    /\ gerar_nome_banco_dados(args.pk, args.nome, args.uf) =
           << "s","p","_","d","1","_","9","0","1","_","l","o","j","a","1" >>
    /\ ret = Some(Some(args.pk))

(***************************************************************************)
(* C19  an update without fields                                           *)
(***************************************************************************)
\* the last ledger call was update_backup
Updated == args.op = "update_backup"

\* C19: update_backup with neither status nor extra returns False and leaves
\* every row of the table as it was; with at least one of them it returns True.
C19_NoFieldNoOp ==
    Updated =>
        IF args.status = None /\ args.extra = None
        THEN ret = Some(FALSE) /\ ledger = args.rows
        ELSE ret = Some(TRUE)

\* an update without fields on a table of two records
C19_Witness ==
    /\ Updated
    /\ args.status = None /\ args.extra = None
    /\ args.id = 1
    /\ Len(args.rows) = 2
    /\ ret = Some(FALSE)

(***************************************************************************)
(* C20  what an update writes                                              *)
(***************************************************************************)
\* the updated record before and after the call, as get_backup returns it
Before == get_backup(args.rows, args.id)[1]
After == get_backup(ledger, args.id)[1]

\* the columns update_backup has no parameter for, and the other records
FrameKept ==
    /\ After.id = Before.id
    /\ After.database = Before.database
    /\ After.backup_path = Before.backup_path
    /\ After.size_mb = Before.size_mb
    /\ Len(ledger) = Len(args.rows)
    /\ \A i \in DOMAIN ledger : i # args.id => ledger[i] = args.rows[i]

\* the extra-data with the keys of E added to, or replacing, those of d
Merge(d, E) ==
    [ k \in (DOMAIN d) \cup (DOMAIN E) |-> IF k \in DOMAIN E THEN E[k] ELSE d[k] ]

\* C20 as stated: an update with extra-data E on a record that has extra-data
\* keeps the existing keys that are not in E.
C20_AsStated ==
    (Updated /\ args.id \in DOMAIN args.rows) =>
        /\ args.status = None => After.status = Before.status
        /\ args.extra = None => After.extra = Before.extra
        /\ (args.extra # None /\ Before.extra # None) =>
               After.extra = Some(Merge(Before.extra[1], args.extra[1]))
        /\ FrameKept

\* C20: a status-only update leaves the extra-data as it was, an extra-only
\* update leaves the status as it was, a given status or extra-data E becomes
\* the record's status or extra-data (E replaces the existing extra-data, keys
\* that are not in E are dropped), and no other column or record changes.
C20_UpdateReplaces ==
    (Updated /\ args.id \in DOMAIN args.rows) =>
        /\ args.status = None => After.status = Before.status
        /\ args.extra = None => After.extra = Before.extra
        /\ args.status # None => After.status = args.status
        /\ args.extra # None => After.extra = args.extra
        /\ FrameKept

\* an extra-only update on a record that held other keys: the old keys are gone
\* and the status is as before
C20_Witness ==
    /\ Updated
    /\ args.id \in DOMAIN args.rows
    /\ args.status = None
    /\ args.extra = Some(ExtraError)
    /\ Before.extra = Some(ExtraIds)
    /\ Before.status = Some("hooks_completed")
    /\ After.extra = Some(ExtraError)
    /\ After.status = Some("hooks_completed")

(***************************************************************************)
(* C21  what get_backup returns for a recorded id                          *)
(***************************************************************************)
\* ids asked for: those of the table, the one before the first and two after
\* the last
ProbedIds == 0..(Len(ledger) + 2)

\* a step of the ledger leaves what get_backup returns for every id as it was,
\* but for the id an update names and the id a record call creates
OtherIdsKept ==
    /\ Len(ledger') >= Len(ledger)
    /\ \A id \in ProbedIds :
         ( /\ ~(args'.op = "update_backup" /\ args'.id = id)
           /\ ~(args'.op = "record_backup" /\ id = Len(ledger) + 1) )
         => get_backup(ledger', id) = get_backup(ledger, id)

\* ids outside the table give None
UnknownIdsGiveNone ==
    \A id \in ProbedIds : id \notin 1..Len(ledger) => get_backup(ledger, id) = None

\* the record a call of record_backup with extra-data e is read back as
Recorded(id, e) ==
    Some([ id          |-> id,
           database    |-> N_rj_d1_77_varejo,
           backup_path |-> BackupPath,
           size_mb     |-> 3,
           status      |-> Some("created"),
           extra       |-> e ])

Recorders == { r \in RunIds : runs[r].record_id # None }

\* C22: the ids record_backup returned to different runs differ, each is the id
\* of a row of the table, and the status and extra-data of a run's row are what
\* that run's own calls wrote, whatever the other runs did; the rows of earlier
\* runs are as they were.
C22_RunsDoNotInterfere ==
    /\ \A r1, r2 \in Recorders :
         r1 # r2 => runs[r1].record_id # runs[r2].record_id
    /\ \A r \in Recorders :
         LET id == runs[r].record_id[1]
         IN  /\ id \in DOMAIN ledger
             /\ get_backup(ledger, id)[1].status = runs[r].wrote.status
             /\ get_backup(ledger, id)[1].extra = runs[r].wrote.extra
    /\ \A i \in DOMAIN ledger :
         (\A r \in Recorders : runs[r].record_id # Some(i)) => ledger[i] = ForeignRow

\* two runs ended, one with hooks_completed and one with hooks_failed, after
\* their updates interleaved
C22_Witness ==
    /\ \A r \in RunIds : runs[r].stage = "done" /\ runs[r].queue = << >>
    /\ runs[1].record_id = Some(2)
    /\ runs[2].record_id = Some(1)
    /\ get_backup(ledger, 2)[1].status = Some("hooks_completed")
    /\ get_backup(ledger, 2)[1].extra = Some(ExtraIds)
    /\ get_backup(ledger, 1)[1].status = Some("hooks_failed")
    /\ get_backup(ledger, 1)[1].extra = Some(ExtraError)

(***************************************************************************)
(* C30  update_backup writes status and extra-data together                *)
(***************************************************************************)
\* the (status, extra-data) pairs a record has before and after each update the
\* workflow makes: status alone (hooks_skipped) or status with extra-data
WrittenPairs ==
    { << ForeignRow.status, ForeignRow.extra >>,
      << Some("created"), None >>,
      << Some("hooks_skipped"), None >>,
      << Some("hooks_completed"), Some(ExtraIds) >>,
      << Some("hooks_failed"), Some(ExtraError) >> }

\* the record the last get_backup call returned, None before any call
Observed == IF args.op = "get_backup" /\ ret # None THEN ret[1] ELSE None

\* C30: whatever the interleaving of the runs' updates and the reader's
\* get_backup calls, a record is never read with the status of an update and
\* the extra-data from before it, nor the reverse: the pair read is the pair
\* before the update or the pair after it.
C30_NoTornUpdate ==
    Observed # None =>
        << Observed[1].status, Observed[1].extra >> \in WrittenPairs

\* a record read as hooks_completed with its extra-data while the other run's
\* update is still to be committed
C30_Witness ==
    /\ Observed # None
    /\ Observed[1].status = Some("hooks_completed")
    /\ Observed[1].extra = Some(ExtraIds)
    /\ \E r \in RunIds : runs[r].queue # << >> /\ runs[r].record_id # Some(Observed[1].id)

(***************************************************************************)
(* C23  no credential: a configuration error before any request            *)
(***************************************************************************)
NoToken == env.FORTEPLUS_TOKEN = "unset"

\* the calls appended by the step
NewCalls == { i \in DOMAIN calls' : i > Len(calls) }

\* without a token every remote operation of the step ended with the
\* configuration error and the step sent no request
RemoteStepRefused ==
    \A i \in NewCalls :
        (calls'[i].op \in RemoteOps /\ NoToken) =>
            /\ calls'[i].res = "config_error"
            /\ RaisedClass(calls'[i].res) = "ImproperlyConfiguredException"
            /\ requests' = requests

\* the chain of a run of mirror() started without a token
ChainStartedWithoutToken ==
    pc # "hooks" /\ NoToken /\ Called("obter_dados_assinatura_producao")

NoTokenRun ==
    ChainStartedWithoutToken =>
        /\ assinatura_id # None
        /\ CalledWith("obter_dados_assinatura_producao", "config_error")
        /\ requests = << >>
        /\ \A i \in DOMAIN calls :
             calls[i].op \notin (TargetOps \cup RemoteOps)
                                    \ { "obter_dados_assinatura_producao" }
        /\ pc \in { "hooks_except", "check_hooks", "finally", "done" }
        /\ pc # "hooks_except" => UpdateCalled("hooks_failed")
        /\ UpdateRes("hooks_failed", "ok") =>
              /\ OwnRecord.status = Some("hooks_failed")
              /\ OwnRecord.extra = Some([ error |-> TokenErro ])
        /\ UpdateRes("hooks_failed", "raise") => OwnRecord.status = Some("created")
        /\ Ended => outcome = "sysexit" /\ ExitStatus(outcome) = 1

C23_DirectCalls ==
    /\ pc = "hooks"
    /\ NoToken
    /\ Len(calls) = MaxHookCalls
    /\ \A i \in DOMAIN calls : calls[i].res = "config_error"
    /\ requests = << >>

(***************************************************************************)
(* C24  the exception of the identity update for a token without 'db'      *)
(***************************************************************************)
\* C24 as stated: an identity update whose token has no 'db' key raises
\* ValueError, one without token or signing secret raises the configuration
\* error, and in both cases no request is sent.
C24_AsStated ==
    \A i \in DOMAIN calls :
        calls[i].op = IdentityUpdate =>
            /\ calls[i].res = "no_db" => RaisedClass(calls[i].res) = "ValueError"
            /\ calls[i].res = "config_error" =>
                   RaisedClass(calls[i].res) = "ImproperlyConfiguredException"
            /\ (pc = "hooks" /\ Len(calls) = 1
                   /\ calls[i].res \in { "no_db", "config_error" }) =>
                   requests = << >>

(***************************************************************************)
(* C25  the collaborators are called in a fixed order                      *)
(***************************************************************************)
\* the place of a collaborator in the order of cli.py 123-336, 0 for the calls
\* the order does not speak of (ledger updates, pause, cleanup)
Rank(op) ==
    CASE op = "create_backup"                            -> 1
      [] op = "record_backup"                            -> 2
      [] op = "obter_dados_assinatura_producao"          -> 3
      [] op = "clonar_assinatura_desenvolvimento"        -> 4
      [] op = "criar_assinante_usuario_desenvolvimento"  -> 5
      [] op = "check_database_exists"                    -> 6
      [] op \in { "create_database", "drop_and_create_database" } -> 7
      [] op = "restore_backup"                           -> 8
      [] op = IdentityUpdate                             -> 9
      [] OTHER                                           -> 0

\* C25: the calls of a run follow the order backup, audit-record creation,
\* fetch, clone, link, existence probe, create or recreate, restore, identity
\* update, one after the other; nothing is called before the backup, every later
\* stage follows a backup that returned, and when the backup raises no audit
\* record is created, no request is sent and no command is issued on the target.
C25_FixedOrder ==
    /\ \A i, j \in DOMAIN calls :
         (i < j /\ Rank(calls[i].op) > 0 /\ Rank(calls[j].op) > 0) =>
             Rank(calls[i].op) < Rank(calls[j].op)
    /\ calls # << >> => calls[1].op = "create_backup"
    /\ (\E i \in DOMAIN calls : Rank(calls[i].op) > 1) =>
           /\ CalledWith("create_backup", "ok")
           /\ Called("record_backup")
    /\ Called("clonar_assinatura_desenvolvimento") =>
           CalledWith("obter_dados_assinatura_producao", "full")
    /\ Called("criar_assinante_usuario_desenvolvimento") =>
           Called("clonar_assinatura_desenvolvimento")
    /\ (\E i \in DOMAIN calls : Rank(calls[i].op) > 6) => Called("check_database_exists")
    /\ Called(IdentityUpdate) => CalledWith("restore_backup", "True")
    /\ CalledWith("create_backup", "raise") =>
           /\ calls = << Call("create_backup", cfg.database, "raise") >>
           /\ record_id = None
           /\ Len(ledger) <= MaxForeignRows
           /\ \A i \in DOMAIN ledger : ledger[i] = ForeignRow
           /\ requests = << >>
           /\ cmds = << >>
           /\ pc \in { "finally", "done" }
           /\ Ended => outcome = "exception"

\* a run that went through every stage, recreate included, and returned
C25_Witness ==
    /\ Ended
    /\ outcome = "returned"
    /\ \A n \in 1..9 : \E i \in DOMAIN calls : Rank(calls[i].op) = n
    /\ Called("drop_and_create_database")

(***************************************************************************)
(* C26  recreate: terminate, drop, create                                  *)
(***************************************************************************)
\* the commands issued after the existence probe
AfterProbeCmds == SubSeq(cmds, 2, Len(cmds))

RecreateEndedWith(k) == CalledWith("drop_and_create_database", k)

\* C26: recreate issues terminate-connections, drop and create in that order; a
\* failing terminate command stops nothing, drop and create follow and the run
\* goes on to restore; a failing drop ends the process with status 1 and no
\* create is issued; a failing create ends the process with status 1.
C26_RecreateSequence ==
    /\ (RecreateEndedWith("ok") \/ RecreateEndedWith("ok_terminate_failed")
            \/ RecreateEndedWith("create_failed")) =>
           AfterProbeCmds = << Cmd("SELECT pg_terminate_backend", target_database),
                               Cmd("DROP DATABASE IF EXISTS", target_database),
                               Cmd("CREATE DATABASE", target_database) >>
    /\ RecreateEndedWith("drop_failed") =>
           AfterProbeCmds = << Cmd("SELECT pg_terminate_backend", target_database),
                               Cmd("DROP DATABASE IF EXISTS", target_database) >>
    /\ (RecreateEndedWith("ok") \/ RecreateEndedWith("ok_terminate_failed")) =>
           pc = "restore" \/ Called("restore_backup")
    /\ (RecreateEndedWith("drop_failed") \/ RecreateEndedWith("create_failed")) =>
           /\ ~Called("restore_backup")
           /\ pc \in { "finally", "done" }
           /\ Ended => outcome = "sysexit" /\ ExitStatus(outcome) = 1

\* the terminate command failed, drop and create ran, and the run returned
C26_Witness ==
    /\ Ended
    /\ RecreateEndedWith("ok_terminate_failed")
    /\ Len(AfterProbeCmds) = 3
    /\ CalledWith("restore_backup", "True")
    /\ outcome = "returned"

(***************************************************************************)
(* C27  every stage is attempted at most once                              *)
(***************************************************************************)
\* the collaborators the run calls once at most
Stages ==
    { "create_backup", "record_backup", "obter_dados_assinatura_producao",
      "clonar_assinatura_desenvolvimento", "criar_assinante_usuario_desenvolvimento",
      "check_database_exists", "restore_backup", IdentityUpdate }

\* C27: in a run the backup, the audit-record creation, fetch, clone, link-user,
\* the existence probe, restore and the identity update are each called at most
\* once, and create and recreate together at most once, whatever their outcome.
C27_AttemptOnce ==
    /\ \A op \in Stages : Count(op) <= 1
    /\ Count("create_database") + Count("drop_and_create_database") <= 1

\* a run in which every stage up to restore was called once, create failed the
\* first time it was tried and nothing was tried again
C27_Witness ==
    /\ Ended
    /\ \A op \in Stages \ { "restore_backup", IdentityUpdate } : Count(op) = 1
    /\ CalledWith("create_database", "failed")
    /\ Count("create_database") = 1
    /\ outcome = "sysexit"

(***************************************************************************)
(* C28  lifecycle of the audit record's status                             *)
(***************************************************************************)
StatusValues == { "created", "hooks_skipped", "hooks_completed", "hooks_failed" }

\* the status of row i of the table
StatusOf(rows, i) == rows[i].status

\* C28: the run's record is created with status created; a step changes the
\* status of that record only from created, and only to hooks_skipped,
\* hooks_completed or hooks_failed, so a status other than created is final; no
\* step changes another record, and every status in the table is one of the four.
C28_StatusLifecycle ==
    [][ /\ (record_id = None /\ record_id' # None) =>
              /\ record_id' = Some(Len(ledger) + 1)
              /\ StatusOf(ledger', record_id'[1]) = Some("created")
        /\ \A i \in DOMAIN ledger :
              /\ i \in DOMAIN ledger'
              /\ StatusOf(ledger', i) # StatusOf(ledger, i) =>
                    /\ record_id = Some(i)
                    /\ StatusOf(ledger, i) = Some("created")
                    /\ StatusOf(ledger', i) \in
                           { Some("hooks_skipped"), Some("hooks_completed"),
                             Some("hooks_failed") }
        /\ \A i \in DOMAIN ledger' :
              \E s \in StatusValues : StatusOf(ledger', i) = Some(s) ]_vars

\* the update to hooks_completed raised and the record, still created, became
\* hooks_failed
C28_Witness ==
    /\ Ended
    /\ record_id # None
    /\ UpdateRes("hooks_completed", "raise")
    /\ UpdateRes("hooks_failed", "ok")
    /\ OwnRecord.status = Some("hooks_failed")

(***************************************************************************)
(* C29  link-user: skipped without an email, fatal when it raises          *)
(***************************************************************************)
\* fetch and clone succeeded, the target name was derived, and no email
\* address is configured
CloneOkNoEmail ==
    /\ env.EMAIL_USUARIO = None
    /\ \E k \in { "full", "acme", "same_id", "zero_id" } :
          CalledWith("clonar_assinatura_desenvolvimento", k)

\* the name made of the clone's id, display name and region
DerivedName ==
    gerar_nome_banco_dados(Str(assinatura_clonada.id),
                           assinatura_clonada.ss_nome_fantasia,
                           assinatura_clonada.ss_uf)

\* what C29 promises of the run without an email address
NoEmailOutcome ==
    /\ ~Called("criar_assinante_usuario_desenvolvimento")
    /\ target_database = DerivedName
    /\ AfterProvisioning =>
          /\ OwnRecord.status = Some("hooks_completed")
          /\ OwnRecord.extra[1].email_usuario = None
          /\ OwnRecord.extra[1].target_database = DerivedName
          /\ hooks_executados_com_sucesso
          /\ TargetCallsUse(DerivedName)
    /\ Ended => Called("check_database_exists")
    /\ Ended => (Called("restore_backup") \/ GateFailed)

LinkRaised == CalledWith("criar_assinante_usuario_desenvolvimento", "raise")

\* what C29 promises of the run whose link-user call raised
LinkFailureOutcome ==
    /\ env.EMAIL_USUARIO # None
    /\ pc \in { "hooks_except", "check_hooks", "finally", "done" }
    /\ ~UpdateCalled("hooks_completed")
    /\ pc # "hooks_except" =>
          UpdateCalled("hooks_failed") /\ ~hooks_executados_com_sucesso
    /\ \A i \in DOMAIN calls : calls[i].op \notin TargetOps
    /\ Ended => outcome = "sysexit" /\ ExitStatus(outcome) = 1

\* C29 as stated: without an email address the link-user call is not made, the
\* chain completes with hooks_completed and the derived target, and the gate and
\* restore follow; a link-user call that raises fails the chain.
C29_AsStated ==
    /\ (CloneOkNoEmail /\ pc # "link") => NoEmailOutcome
    /\ LinkRaised => LinkFailureOutcome

\* C29 amended: without an email address the link-user call is not made and the
\* update to hooks_completed is attempted with the derived target; if that
\* update returns the record is hooks_completed and the gate and restore follow
\* on the derived name, if it raises the run is handled as a chain failure; a
\* link-user call that raises fails the chain and the run aborts before restore.
C29_LinkBestEffort ==
    /\ (CloneOkNoEmail /\ pc # "link") =>
          /\ ~Called("criar_assinante_usuario_desenvolvimento")
          /\ pc # "update_completed" => UpdateCalled("hooks_completed")
    /\ (CloneOkNoEmail /\ UpdateRes("hooks_completed", "ok")) => NoEmailOutcome
    /\ (CloneOkNoEmail /\ UpdateRes("hooks_completed", "raise")) =>
          /\ target_database = DerivedName
          /\ \A i \in DOMAIN calls : calls[i].op \notin TargetOps
          /\ Ended => ExitStatus(outcome) = 1
    /\ LinkRaised => LinkFailureOutcome

\* no email address: no link-user call, record hooks_completed, restore into
\* the derived name sp_d1_55_acme
C29_Witness ==
    /\ Ended
    /\ CloneOkNoEmail
    /\ ~Called("criar_assinante_usuario_desenvolvimento")
    /\ OwnRecord.status = Some("hooks_completed")
    /\ \E i \in DOMAIN calls :
          calls[i] = Call("restore_backup", N_sp_d1_55_acme, "True")
    /\ outcome = "returned"

(***************************************************************************)
(* C31  one target name for the gate and restore, agreeing with the record *)
(***************************************************************************)
\* the name given to the restore collaborator
RestoreArg == calls[CHOOSE i \in DOMAIN calls : calls[i].op = "restore_backup"].arg

\* the clone answered with the three fields the derived name is made of
CloneHasName ==
    { "id", "ss_nome_fantasia", "ss_uf" } \subseteq DOMAIN assinatura_clonada

\* restore was invoked in a run that resolved a correlation key
RestoreWithKey == Called("restore_backup") /\ assinatura_id # None

\* every gate and restore call of the run was given one and the same name
OneTargetName ==
    \A i, j \in DOMAIN calls :
        (calls[i].op \in TargetOps /\ calls[j].op \in TargetOps) =>
            /\ calls[i].arg = calls[j].arg
            /\ calls[i].arg = target_database

\* C31 as stated: one name for probe, create/recreate and restore; with a key,
\* the record is hooks_completed if restore is given the derived name and
\* hooks_skipped if it is given the original name.
C31_AsStated ==
    /\ OneTargetName
    /\ RestoreWithKey =>
          /\ record_id # None
          /\ (CloneHasName /\ RestoreArg = DerivedName) =>
                 OwnRecord.status = Some("hooks_completed")
          /\ RestoreArg = cfg.database =>
                 OwnRecord.status = Some("hooks_skipped")

\* C31 amended: one name for probe, create/recreate and restore; with a key,
\* restore is invoked only with a record that is hooks_skipped or
\* hooks_completed: hooks_skipped when the chain was skipped, and the name is
\* the original one; hooks_completed when the chain completed, and the name is
\* the derived one, the name the record's extra-data holds, which is the
\* original name when the clone's id, display name and region give it again.
C31_TargetConsistency ==
    /\ OneTargetName
    /\ RestoreWithKey =>
          /\ record_id # None
          /\ OwnRecord.status \in { Some("hooks_skipped"), Some("hooks_completed") }
          /\ OwnRecord.status = Some("hooks_skipped") =>
                 /\ RestoreArg = cfg.database
                 /\ ~Called("clonar_assinatura_desenvolvimento")
          /\ OwnRecord.status = Some("hooks_completed") =>
                 /\ CloneHasName
                 /\ RestoreArg = DerivedName
                 /\ OwnRecord.extra[1].target_database = RestoreArg
          /\ (CloneHasName /\ RestoreArg = DerivedName) =>
                 OwnRecord.status = Some("hooks_completed")
          /\ (RestoreArg = cfg.database /\ OwnRecord.status # Some("hooks_skipped")) =>
                 DerivedName = cfg.database

\* the clone gave the source's own id, name and region: restore ran on the
\* original name, which is the derived name, with the record hooks_completed
C31_Witness ==
    /\ Ended
    /\ RestoreWithKey
    /\ Called("drop_and_create_database")
    /\ CloneHasName
    /\ RestoreArg = cfg.database
    /\ RestoreArg = DerivedName
    /\ OwnRecord.status = Some("hooks_completed")

(***************************************************************************)
(* C33  the audit record is frozen after the provisioning branch           *)
(***************************************************************************)
\* C33: once the provisioning branch is over, the run never goes back into it
\* and no step (flag check, probe, create, recreate, restore, fix-up, cleanup)
\* changes the ledger: the status and extra-data of the record stay what the
\* branch left, whether restore succeeds, fails, or the gate ends the process.
C33_RecordFrozen ==
    [][ AfterProvisioning => (AfterProvisioning' /\ ledger' = ledger) ]_vars

\* a run whose record was left hooks_completed by the branch, still so after
\* recreate ran and restore failed
C33_Witness ==
    /\ Ended
    /\ record_id # None
    /\ OwnRecord.status = Some("hooks_completed")
    /\ CalledWith("drop_and_create_database", "ok")
    /\ CalledWith("restore_backup", "False")
    /\ outcome = "sysexit"

====
